---- MODULE Spec2Model ----
(***************************************************************************)
(* The Intcode machine of vijfhoek/aoc2019, in its seven re-implementations *)
(* (days 02, 05, 07, 09, 11, 13, 15).  One machine is modelled as the       *)
(* fields of `Interpreter` (memory, ip, relative_base, last_output), the    *)
(* two mpsc channels it is wired to, and the outcome of its thread.         *)
(*                                                                          *)
(* Conventions                                                              *)
(*   - a Vec<i64> is a sequence; Rust index i is TLA+ index i + 1;          *)
(*   - an Option is <<>> (None) or <<v>> (Some(v));                         *)
(*   - a `usize` obtained by `as usize` from a negative integer is kept as  *)
(*     the negative integer: it stands for a value >= 2^63, which is past   *)
(*     the end of every vector;                                             *)
(*   - status is "running" until the run loop ends: "halted" (the loop      *)
(*     ended normally), "None" (day 05 `run` returned None through `?`),    *)
(*     or one of PanicKinds (the thread panicked);                          *)
(*   - steps, prev, acted and stores record the run so far: the number of   *)
(*     instructions, the machine before the last one, what acted last, and  *)
(*     for each instruction the set of addresses it assigned;               *)
(*   - wide holds the operands of one Multiply on values beyond the model   *)
(*     checker's integers, ring the five machines of day 07's feedback      *)
(*     ring with their channels, search the noun/verb loop of day 02's      *)
(*     part2, chain the nested loops of day 07's part1, orderings the      *)
(*     nested loops of day 07's part2, driver the step loop of the drivers  *)
(*     of days 11, 13 and 15.                                               *)
(***************************************************************************)
EXTENDS Integers, Sequences, FiniteSets, TLC

VARIABLES day, build, program, memory, ip, relative_base, last_output, status,
          inq, in_open, outq, out_open, steps, prev, acted, stores, wide, ring,
          search, chain, orderings, driver

vars == <<day, build, program, memory, ip, relative_base, last_output, status,
          inq, in_open, outq, out_open, steps, prev, acted, stores, wide, ring,
          search, chain, orderings, driver>>

\* ------------------------------------------------------------------ bounds
\* The run loop is followed for at most MaxSteps instructions.
MaxSteps == 4

\* ------------------------------------------------------------ the variants
Days == {2, 5, 7, 9, 11, 13, 15}
Builds == {"debug", "release"}

PanicKinds == {"panic_opcode", "panic_mode", "panic_immediate", "panic_index",
               "panic_unwrap", "panic_overflow", "panic_capacity", "panic_recv"}

IsPanic(s) == s \in PanicKinds

\* --------------------------------------------------------- Rust arithmetic
\* `/` on signed integers truncates toward zero.
RustDiv(a, b) == IF a >= 0 THEN a \div b ELSE -((-a) \div b)

\* `%` on signed integers has the sign of the dividend.
RustRem(a, b) == a - b * RustDiv(a, b)

\* Vec::get(i): None when i is past the end.
VecGet(mem, i) == IF i >= 0 /\ i < Len(mem) THEN <<mem[i + 1]>> ELSE <<>>

\* memory.get(i).unwrap_or(&0)
GetOr0(mem, i) == IF VecGet(mem, i) = <<>> THEN 0 ELSE mem[i + 1]

\* Vec::resize(n, 0): truncates or pads with zeros.
Resize(mem, n) == [k \in 1..n |-> IF k <= Len(mem) THEN mem[k] ELSE 0]

\* --------------------------------------------------------------- decoding
\* impl From<i64> for Opcode
OpcodeFrom(d, item) ==
    CASE item = 1 -> "Add"
      [] item = 2 -> "Multiply"
      [] item = 3 /\ d >= 7 -> "Read"
      [] item = 4 /\ d >= 7 -> "Write"
      [] item = 5 /\ d >= 7 -> "JumpIfTrue"
      [] item = 6 /\ d >= 7 -> "JumpIfFalse"
      [] item = 7 /\ d >= 7 -> "LessThan"
      [] item = 8 /\ d >= 7 -> "Equals"
      [] item = 9 /\ d >= 9 -> "RelativeBase"
      [] item = 99 -> "Halt"
      [] OTHER -> "panic"

\* impl From<i64> for ParameterMode
ParameterModeFrom(d, item) ==
    CASE item = 0 -> "Position"
      [] item = 1 -> "Immediate"
      [] item = 2 /\ d >= 9 -> "Relative"
      [] OTHER -> "panic"

\* Parameter::new
Parameter(mode, value) == [mode |-> mode, value |-> value]

\* The divisor that selects the mode digit of parameter k.  Day 05 uses
\* `instruction / 100 % 10` for all three parameters.
ModeDivisor(d, k) ==
    IF d = 5 THEN 100
    ELSE CASE k = 1 -> 100 [] k = 2 -> 1000 [] OTHER -> 10000

NoParameters == <<Parameter("Position", 0), Parameter("Position", 0), Parameter("Position", 0)>>

\* Instruction::fetch
fetch(d, pc, mem) ==
    IF VecGet(mem, pc) = <<>>
    THEN [kind |-> "None", opcode |-> "none", parameters |-> NoParameters]
    ELSE LET instruction == mem[pc + 1]
             opcode == OpcodeFrom(d, RustRem(instruction, 100))
             m(k) == ParameterModeFrom(d, RustRem(RustDiv(instruction, ModeDivisor(d, k)), 10))
         IN  IF opcode = "panic"
             THEN [kind |-> "panic_opcode", opcode |-> "none", parameters |-> NoParameters]
             ELSE IF m(1) = "panic" \/ m(2) = "panic" \/ m(3) = "panic"
             THEN [kind |-> "panic_mode", opcode |-> opcode, parameters |-> NoParameters]
             ELSE [kind |-> "Some", opcode |-> opcode,
                   parameters |-> <<Parameter(m(1), GetOr0(mem, pc + 1)),
                                    Parameter(m(2), GetOr0(mem, pc + 2)),
                                    Parameter(m(3), GetOr0(mem, pc + 3))>>]

\* ----------------------------------------------------- parameter resolution
\* Mutant: Relative resolved like Position, without the relative base.
AddressWithoutBase(M, p) == p.value

\* The address of a Position or Relative parameter.
Address(M, p) ==
    IF p.mode = "Relative" THEN p.value + M.relative_base ELSE p.value

\* Parameter::value (days 05, 07), Interpreter::value (days 09..15).
\* err is "" on success, "None" when day 05 yields None, else a panic kind.
value(d, M, p) ==
    IF p.mode = "Immediate" THEN [err |-> "", v |-> p.value]
    ELSE LET index == Address(M, p)
             cell == VecGet(M.memory, index)
         IN  IF cell # <<>> THEN [err |-> "", v |-> cell[1]]
             ELSE IF d = 5 THEN [err |-> "None", v |-> 0]
             ELSE IF d = 7 THEN [err |-> "panic_index", v |-> 0]
             ELSE [err |-> "", v |-> 0]

\* Parameter::value_mut (days 05, 07), Interpreter::value_mut (days 09..15).
\* Yields the index of the cell and the memory after any resize.
value_mut(d, bld, M, p) ==
    IF p.mode = "Immediate"
    THEN [err |-> "panic_immediate", index |-> 0, memory |-> M.memory]
    ELSE LET index == Address(M, p)
             len == Len(M.memory)
         IN  IF index >= 0 /\ index < len
             THEN [err |-> "", index |-> index, memory |-> M.memory]
             ELSE IF d = 5 THEN [err |-> "None", index |-> 0, memory |-> M.memory]
             ELSE IF d = 7 THEN [err |-> "panic_unwrap", index |-> 0, memory |-> M.memory]
             ELSE IF index >= len
             THEN [err |-> "", index |-> index, memory |-> Resize(M.memory, index + 1)]
             ELSE IF d >= 11
             THEN \* usize::try_from(negative).unwrap()
                  [err |-> "panic_unwrap", index |-> 0, memory |-> M.memory]
             ELSE \* day 09: `as usize` wraps to 2^64 + index
                  IF index = -1
                  THEN IF bld = "debug"
                       THEN \* index + 1 overflows usize
                            [err |-> "panic_overflow", index |-> 0, memory |-> M.memory]
                       ELSE \* index + 1 wraps to 0: resize(0, 0), then get_mut is None
                            [err |-> "panic_unwrap", index |-> 0, memory |-> <<>>]
                  ELSE [err |-> "panic_capacity", index |-> 0, memory |-> M.memory]

\* ------------------------------------------------------------ the machine
\* Interpreter::new
\* Mutant: the machine starts at address 1.
newAtOne(mem, q, qopen, oopen) ==
    [memory |-> mem, ip |-> 1, relative_base |-> 0, last_output |-> <<>>,
     status |-> "running", inq |-> q, in_open |-> qopen, outq |-> <<>>,
     out_open |-> oopen]

new(mem, q, qopen, oopen) ==
    [memory |-> mem, ip |-> 0, relative_base |-> 0, last_output |-> <<>>,
     status |-> "running", inq |-> q, in_open |-> qopen, outq |-> <<>>,
     out_open |-> oopen]

\* The thread ends: a panic, or `?` returning None out of day 05's run.
Fail(M, err) == [M EXCEPT !.status = err]

\* `*value_mut(dst) = v; ip + delta`, the right-hand side v already evaluated.
Store(d, bld, M, dst, v, delta) ==
    LET w == value_mut(d, bld, M, dst)
    IN  IF w.err # ""
        THEN [M EXCEPT !.status = w.err, !.memory = w.memory]
        ELSE [M EXCEPT !.memory = [w.memory EXCEPT ![w.index + 1] = v],
                       !.ip = M.ip + delta]

Sum(x, y) == x + y

\* Mutant: the Equals arm copied from LessThan without changing the operator.
SameAsLess(x, y) == IF x < y THEN 1 ELSE 0

\* Mutant: the Multiply arm copied from Add without changing the operator.
ProductAsSum(x, y) == x + y

Product(x, y) == x * y
Less(x, y) == IF x < y THEN 1 ELSE 0
Same(x, y) == IF x = y THEN 1 ELSE 0

\* The right-hand side of the four arms that store a function of two sources.
Apply(opcode, x, y) ==
    CASE opcode = "Add" -> Sum(x, y)
      [] opcode = "Multiply" -> Product(x, y)
      [] opcode = "LessThan" -> Less(x, y)
      [] OTHER -> Same(x, y)

\* Add, Multiply, LessThan, Equals: both sources are read before the
\* destination is resolved.
Binary(d, bld, M, ins) ==
    LET a == value(d, M, ins.parameters[1])
        b == value(d, M, ins.parameters[2])
    IN  IF a.err # "" THEN Fail(M, a.err)
        ELSE IF b.err # "" THEN Fail(M, b.err)
        ELSE Store(d, bld, M, ins.parameters[3], Apply(ins.opcode, a.v, b.v), 4)

\* The parameter Read stores through: day 09 passes `c`, the others `a`.
ReadTarget(d, ins) == IF d = 9 THEN ins.parameters[3] ELSE ins.parameters[1]

\* Mutant: recv() never waits.
ReturnsAtOnce(M) == FALSE

\* A Read step waits in recv() while the channel is empty and a sender lives.
WaitsForInput(M) == M.inq = <<>> /\ M.in_open

\* Opcode::Read.  recv() is evaluated before the destination is resolved;
\* day 13 then empties the channel with try_recv().
Read(d, bld, M, ins) ==
    IF M.inq = <<>> THEN Fail(M, "panic_recv")
    ELSE LET input == Head(M.inq)
             rest == IF d = 13 THEN <<>> ELSE Tail(M.inq)
         IN  Store(d, bld, [M EXCEPT !.inq = rest], ReadTarget(d, ins), input, 2)

\* Opcode::Write.  Day 07 records last_output only when send() fails; the
\* later days record it always and ignore the result of send().  Day 09 has
\* no channel wired and prints: its sink is outq.
Write(d, M, ins) ==
    LET a == value(d, M, ins.parameters[1])
        sent == d = 9 \/ M.out_open
        pushed == IF sent THEN Append(M.outq, a.v) ELSE M.outq
    IN  IF a.err # "" THEN Fail(M, a.err)
        ELSE IF d = 7
        THEN [M EXCEPT !.outq = pushed,
                       !.last_output = IF sent THEN M.last_output ELSE <<a.v>>,
                       !.ip = M.ip + 2]
        ELSE [M EXCEPT !.outq = pushed, !.last_output = <<a.v>>, !.ip = M.ip + 2]

\* Opcode::JumpIfTrue (wanted = TRUE), Opcode::JumpIfFalse (wanted = FALSE).
\* The target is read only when the jump is taken.
Jump(d, M, ins, wanted) ==
    LET a == value(d, M, ins.parameters[1])
        b == value(d, M, ins.parameters[2])
    IN  IF a.err # "" THEN Fail(M, a.err)
        ELSE IF (a.v # 0) = wanted
        THEN IF b.err # "" THEN Fail(M, b.err) ELSE [M EXCEPT !.ip = b.v]
        ELSE [M EXCEPT !.ip = M.ip + 3]

\* Opcode::RelativeBase
AdjustRelativeBase(d, M, ins) ==
    LET a == value(d, M, ins.parameters[1])
    IN  IF a.err # "" THEN Fail(M, a.err)
        ELSE [M EXCEPT !.relative_base = M.relative_base + a.v, !.ip = M.ip + 2]

\* Mutant: a Halt after which step returns true.
HaltContinues(M) == [M EXCEPT !.ip = M.ip + 1]

\* Mutant: a Halt that also rewinds the instruction pointer.
HaltRewinds(M) == [M EXCEPT !.status = "halted", !.ip = 0]

\* Opcode::Halt: `return false`, before `self.ip = ip`.  The struct has no
\* halted flag; the loop that called step ends.
Halt(M) == [M EXCEPT !.status = "halted"]

\* The match on instruction.opcode in Interpreter::step.
execute(d, bld, M, ins) ==
    CASE ins.opcode = "Add" -> Binary(d, bld, M, ins)
      [] ins.opcode = "Multiply" -> Binary(d, bld, M, ins)
      [] ins.opcode = "Read" -> Read(d, bld, M, ins)
      [] ins.opcode = "Write" -> Write(d, M, ins)
      [] ins.opcode = "JumpIfTrue" -> Jump(d, M, ins, TRUE)
      [] ins.opcode = "JumpIfFalse" -> Jump(d, M, ins, FALSE)
      [] ins.opcode = "LessThan" -> Binary(d, bld, M, ins)
      [] ins.opcode = "Equals" -> Binary(d, bld, M, ins)
      [] ins.opcode = "RelativeBase" -> AdjustRelativeBase(d, M, ins)
      [] OTHER -> Halt(M)

\* Interpreter::step (days 07..15), and one iteration of the loop of day
\* 05's run: fetch, then execute.  A fetch of None is unwrapped (panic) from
\* day 07 on and returned through `?` on day 05.
step(d, bld, M) ==
    LET ins == fetch(d, M.ip, M.memory)
    IN  IF ins.kind = "None" THEN Fail(M, IF d = 5 THEN "None" ELSE "panic_unwrap")
        ELSE IF ins.kind # "Some" THEN Fail(M, ins.kind)
        ELSE execute(d, bld, M, ins)

\* One iteration of the loop of day 02's run: four indexed reads, then the
\* match on the raw cell; any other cell value breaks out of the loop.
run02(M) ==
    LET mem == M.memory
        pc == M.ip
        In(i) == i >= 0 /\ i < Len(mem)
    IN  IF ~(In(pc) /\ In(pc + 1) /\ In(pc + 2) /\ In(pc + 3)) THEN Fail(M, "panic_index")
        ELSE LET opcode == mem[pc + 1]
                 left == mem[pc + 2]
                 right == mem[pc + 3]
                 to == mem[pc + 4]
             IN  IF opcode \notin {1, 2} THEN [M EXCEPT !.status = "halted"]
                 ELSE IF ~(In(left) /\ In(right) /\ In(to)) THEN Fail(M, "panic_index")
                 ELSE [M EXCEPT !.memory = [mem EXCEPT ![to + 1] =
                                               IF opcode = 1 THEN mem[left + 1] + mem[right + 1]
                                               ELSE mem[left + 1] * mem[right + 1]],
                                !.ip = pc + 4]

\* One instruction of the variant d.
StepOf(d, bld, M) == IF d = 2 THEN run02(M) ELSE step(d, bld, M)

\* The instruction the next step decodes (days 05..15).
Current(d, M) == fetch(d, M.ip, M.memory)

\* The addresses the next step assigns: the index that value_mut yields for
\* the destination of a storing arm (`to` on day 02), when the step succeeds.
StoreIndex(d, bld, M) ==
    IF StepOf(d, bld, M).status # "running" THEN {}
    ELSE IF d = 2
    THEN IF M.memory[M.ip + 1] \in {1, 2} THEN {M.memory[M.ip + 4]} ELSE {}
    ELSE LET ins == Current(d, M)
         IN  IF ins.opcode \in {"Add", "Multiply", "LessThan", "Equals"}
             THEN {Address(M, ins.parameters[3])}
             ELSE IF ins.opcode = "Read" THEN {Address(M, ReadTarget(d, ins))}
             ELSE {}

\* The next step is a Read that finds its channel empty with a sender alive.
Blocked(d, M) ==
    /\ d >= 7
    /\ Current(d, M).kind = "Some"
    /\ Current(d, M).opcode = "Read"
    /\ WaitsForInput(M)

\* ------------------------------------------------------- wide cell values
\* Cell values beyond the range of the model checker's integers: a sign and
\* a magnitude, the magnitude a little-endian sequence of base-256 limbs
\* without leading zero limbs (zero is <<>>).
LimbBase == 16 * 16

RECURSIVE NatNorm(_)
NatNorm(x) ==
    IF x = <<>> THEN <<>>
    ELSE IF x[Len(x)] = 0 THEN NatNorm(SubSeq(x, 1, Len(x) - 1)) ELSE x

RECURSIVE NatAddC(_, _, _)
NatAddC(x, y, c) ==
    IF x = <<>> /\ y = <<>> THEN (IF c = 0 THEN <<>> ELSE <<c>>)
    ELSE LET a == IF x = <<>> THEN 0 ELSE Head(x)
             b == IF y = <<>> THEN 0 ELSE Head(y)
             t == a + b + c
         IN  <<t % LimbBase>> \o
             NatAddC(IF x = <<>> THEN <<>> ELSE Tail(x),
                     IF y = <<>> THEN <<>> ELSE Tail(y), t \div LimbBase)

NatAdd(x, y) == NatAddC(x, y, 0)

\* x * m + c for a small m.
RECURSIVE NatMulSmall(_, _, _)
NatMulSmall(x, m, c) ==
    IF x = <<>>
    THEN (IF c = 0 THEN <<>> ELSE <<c % LimbBase>> \o NatMulSmall(<<>>, m, c \div LimbBase))
    ELSE LET t == Head(x) * m + c
         IN  <<t % LimbBase>> \o NatMulSmall(Tail(x), m, t \div LimbBase)

RECURSIVE NatMul(_, _)
NatMul(x, y) ==
    IF x = <<>> \/ y = <<>> THEN <<>>
    ELSE LET rest == NatMul(Tail(x), y)
         IN  NatNorm(NatAdd(NatMulSmall(y, Head(x), 0),
                            IF rest = <<>> THEN <<>> ELSE <<0>> \o rest))

RECURSIVE NatLess(_, _)
NatLess(x, y) ==
    IF Len(x) # Len(y) THEN Len(x) < Len(y)
    ELSE IF x = <<>> THEN FALSE
    ELSE IF x[Len(x)] # y[Len(y)] THEN x[Len(x)] < y[Len(y)]
    ELSE NatLess(NatNorm(SubSeq(x, 1, Len(x) - 1)), NatNorm(SubSeq(y, 1, Len(y) - 1)))

\* x - y - b for x >= y + b, limb by limb; x and y padded to the same length.
RECURSIVE NatSubB(_, _, _)
NatSubB(x, y, b) ==
    IF x = <<>> THEN <<>>
    ELSE LET s == IF y = <<>> THEN 0 ELSE Head(y)
             t == Head(x) - s - b
         IN  <<IF t < 0 THEN t + LimbBase ELSE t>> \o
             NatSubB(Tail(x), IF y = <<>> THEN <<>> ELSE Tail(y), IF t < 0 THEN 1 ELSE 0)

NatSub(x, y) == NatNorm(NatSubB(x, y, 0))

\* 2^bits
Pow2(bits) == [k \in 1..(bits \div 8) |-> 0] \o <<2 ^ (bits % 8)>>

\* x mod 2^bits, bits a multiple of 8
NatLow(x, bits) ==
    NatNorm(SubSeq(x, 1, IF Len(x) < bits \div 8 THEN Len(x) ELSE bits \div 8))

\* The number written in decimal, most significant digit first.
RECURSIVE NatOfDecimal(_)
NatOfDecimal(digits) ==
    IF digits = <<>> THEN <<>>
    ELSE NatNorm(NatMulSmall(NatOfDecimal(SubSeq(digits, 1, Len(digits) - 1)),
                             10, digits[Len(digits)]))

Wide(neg, digits) ==
    LET m == NatOfDecimal(digits) IN [neg |-> neg /\ m # <<>>, mag |-> m]

WideProduct(a, b) ==
    LET m == NatMul(a.mag, b.mag) IN [neg |-> m # <<>> /\ a.neg # b.neg, mag |-> m]

\* z is a value of the signed integer type of that many bits.
FitsSigned(bits, z) ==
    IF z.neg THEN ~NatLess(Pow2(bits - 1), z.mag) ELSE NatLess(z.mag, Pow2(bits - 1))

\* z reduced to the two's complement integer of that many bits (wrapping_mul).
WrapSigned(bits, z) ==
    LET low == NatLow(z.mag, bits)
        u == IF z.neg /\ low # <<>> THEN NatSub(Pow2(bits), low) ELSE low
    IN  IF NatLess(u, Pow2(bits - 1)) THEN [neg |-> FALSE, mag |-> u]
        ELSE [neg |-> TRUE, mag |-> NatSub(Pow2(bits), u)]

\* The cell type: i128 on day 09, i64 on the other days.
CellBits(d) == IF d = 9 THEN 128 ELSE 64

\* `a * b` on cells: exact when the product fits the cell type; otherwise a
\* panic with overflow checks (debug) and the wrapped product without.
Multiply(d, bld, a, b) ==
    LET exact == WideProduct(a, b)
    IN  IF FitsSigned(CellBits(d), exact) THEN [status |-> "stored", result |-> exact]
        ELSE IF bld = "debug" THEN [status |-> "panic_overflow", result |-> Wide(FALSE, <<>>)]
        ELSE [status |-> "stored", result |-> WrapSigned(CellBits(d), exact)]

\* No wide operands: the value of `wide` in the machine specification.
NoWide == [a |-> Wide(FALSE, <<>>), b |-> Wide(FALSE, <<>>),
           status |-> "unused", result |-> Wide(FALSE, <<>>)]

\* No ring: the value of `ring` where a single machine is followed.
NoRing == [m |-> <<>>, chan |-> <<>>, sent |-> <<>>]

\* The search of day 02 (part2) and the chain of day 07 (part1) run in
\* specifications of their own; elsewhere these records are not used.
NoSearch == [phase |-> "unused", mem |-> <<>>, noun |-> 0, verb |-> 0,
             work |-> [memory |-> <<>>, ip |-> 0, status |-> "running"], result |-> <<>>]
NoChain == [phase |-> "unused", path |-> <<>>, outs |-> <<>>, signals |-> <<>>, result |-> <<>>]

\* The step loops of the drivers of days 11, 13 and 15 are followed in a
\* specification of their own.
NoDriver == [phase |-> "unused"]

\* The loops of day 07's part2 over the phase orderings are followed in a
\* specification of their own.
NoOrderings == [phase |-> "unused", current |-> <<>>, run |-> <<>>, signals |-> 0]

\* ------------------------------------------------------------ the programs
\* Section 8 of the specification: two reference programs.
Prog3500 == <<1, 9, 10, 3, 2, 3, 11, 0, 99, 30, 40, 50>>
Prog1002 == <<1002, 4, 3, 4, 33>>

\* The self-reproducing program of section 8: it writes the cell at
\* relative_base - 1, counts in cell 100 and loops until the count is 16.
Quine == <<109, 1, 204, -1, 1001, 100, 1, 100, 1008, 100, 16, 101, 1006, 101, 0, 99>>

\* Programs without input, followed to their end rather than for MaxSteps.
RunToEnd == {Quine}

\* One instruction followed by Halt and a zero cell, optionally preceded by
\* an adjustment of the relative base.  A parameter the opcode uses takes
\* every mode digit with every raw cell (Slots); a parameter it does not use
\* takes three of these combinations (SpareSlots).  Read counts its third
\* parameter as used, because day 09 stores through it.
OpcodeDigits == {1, 2, 3, 4, 5, 6, 7, 8, 9, 99}
ModeDigits == {0, 1, 2}
RawCells == {-1, 5, 7}
Slots == ModeDigits \X RawCells
SpareSlots == {<<0, 5>>, <<1, 7>>, <<2, -1>>}
SlotsOf(op, k) ==
    CASE op \in {1, 2, 7, 8} -> Slots
      [] op \in {5, 6} -> IF k <= 2 THEN Slots ELSE SpareSlots
      [] op = 3 -> IF k # 2 THEN Slots ELSE SpareSlots
      [] op \in {4, 9} -> IF k = 1 THEN Slots ELSE SpareSlots
      [] OTHER -> SpareSlots
Prefixes == {<<>>, <<109, 2>>}

Body ==
    UNION {{<<op + 100 * a[1] + 1000 * b[1] + 10000 * c[1], a[2], b[2], c[2], 99, 0>> :
              a \in SlotsOf(op, 1), b \in SlotsOf(op, 2), c \in SlotsOf(op, 3)} :
           op \in OpcodeDigits}

\* A program that overwrites the Halt at address 4 with a Multiply before
\* it gets there.
SelfModifying == <<1, 1, 1, 4, 99, 5, 6, 0, 99>>

\* Halt in the last cell, or with fewer than three cells behind it.
HaltAtEnd == {<<99>>, <<99, 0>>, <<1, 0, 0, 0, 99>>, <<1, 0, 0, 0, 99, 0, 0>>}

\* A mode digit no variant defines, on the third parameter of the opcodes
\* that have fewer than three.
UnusedMode == {<<30000 + op, 5, 5, 5, 99, 0>> : op \in {3, 4, 5, 6, 9, 99}}

\* Day 02 knows no modes, days 05 and 07 no relative base.
ReferencePrograms == {Prog3500, Prog1002, SelfModifying} \cup HaltAtEnd
Programs02 == ReferencePrograms \cup {b \in Body : b[1] \in {1, 2, 3, 99, 1002}}
Programs05 == ReferencePrograms \cup UnusedMode \cup Body
Programs09 == ReferencePrograms \cup UnusedMode \cup RunToEnd
              \cup {p \o b : p \in Prefixes, b \in Body}
Programs(d) == IF d = 2 THEN Programs02 ELSE IF d < 9 THEN Programs05 ELSE Programs09

\* The values a producer sends.
InputValues == {11, 12}

\* The channel holds two values when the thread starts (as the phase and
\* the seed of day 07 do), or nothing.
InitialInputs == {<<>>, <<11, 12>>}

\* Overflow checks (debug) or wrapping (release).  Within the cell values of
\* this specification the build matters to day 09's `index + 1` only.
Configurations == {<<d, b>> \in Days \X Builds : b = "release" \/ d = 9}

\* ----------------------------------------------------------- the state
Machine ==
    [memory |-> memory, ip |-> ip, relative_base |-> relative_base,
     last_output |-> last_output, status |-> status, inq |-> inq,
     in_open |-> in_open, outq |-> outq, out_open |-> out_open]

Becomes(M) ==
    /\ memory' = M.memory
    /\ ip' = M.ip
    /\ relative_base' = M.relative_base
    /\ last_output' = M.last_output
    /\ status' = M.status
    /\ inq' = M.inq
    /\ in_open' = M.in_open
    /\ outq' = M.outq
    /\ out_open' = M.out_open

\* Does the program start with (or, after a prefix, continue with) a Read?
StartsWithRead(p) ==
    \E k \in {1, 3} : k <= Len(p) /\ p[k] % 100 = 3

AllPrograms == Programs02 \cup Programs05 \cup Programs09

Init ==
    \E p \in AllPrograms :
      \E c \in Configurations :
        \E q \in InitialInputs :
          /\ p \in Programs(c[1])
          /\ q = <<>> \/ (c[1] >= 7 /\ StartsWithRead(p))
          /\ day = c[1]
          /\ build = c[2]
          /\ program = p
          /\ \E M \in {new(p, q, TRUE, TRUE)} :
                /\ memory = M.memory
                /\ ip = M.ip
                /\ relative_base = M.relative_base
                /\ last_output = M.last_output
                /\ status = M.status
                /\ inq = M.inq
                /\ in_open = M.in_open
                /\ outq = M.outq
                /\ out_open = M.out_open
                /\ prev = M
          /\ steps = 0
          /\ acted = "init"
          /\ stores = <<>>
          /\ ring = NoRing
          /\ orderings = NoOrderings
          /\ search = NoSearch
          /\ chain = NoChain
          /\ wide = NoWide
          /\ driver = NoDriver

\* One machine instruction; prev keeps the machine as it was before it.
Executes ==
    /\ status = "running"
    /\ steps < MaxSteps \/ program \in RunToEnd
    /\ ~Blocked(day, Machine)
    /\ Becomes(StepOf(day, build, Machine))
    /\ prev' = Machine
    /\ acted' = "step"
    /\ steps' = steps + 1
    /\ stores' = Append(stores, StoreIndex(day, build, Machine))
    /\ UNCHANGED <<day, build, program, wide, ring, search, chain, orderings, driver>>

\* fn run of day 02: one iteration of its loop.
Run02 == day = 2 /\ Executes

\* fn run of day 05: one iteration of its loop.
Run05 == day = 5 /\ Executes

\* Interpreter::step of days 07..15, called from Interpreter::run or from
\* the step loop of a driver.
Step == day >= 7 /\ Executes

\* The producer of the input channel sends a value.  Sends that arrive while
\* the machine is not waiting commute with its steps; they are taken when
\* the machine waits in recv().
Send ==
    /\ status = "running"
    /\ Blocked(day, Machine)
    /\ \E v \in InputValues : inq' = Append(inq, v)
    /\ acted' = "env"
    /\ UNCHANGED <<search, chain, wide, ring, stores, day, build, program, memory, ip, relative_base, last_output, status,
                   in_open, outq, out_open, steps, prev, orderings, driver>>

\* The last sender of the input channel is dropped (day 07: the upstream
\* machine's thread has ended) while the machine waits in recv().
DropSender ==
    /\ day = 7
    /\ status = "running"
    /\ Blocked(day, Machine)
    /\ in_open' = FALSE
    /\ acted' = "env"
    /\ UNCHANGED <<search, chain, wide, ring, stores, day, build, program, memory, ip, relative_base, last_output, status,
                   inq, outq, out_open, steps, prev, orderings, driver>>

\* The receiver of the output channel is dropped (day 07: the downstream
\* machine's thread has ended) before the machine's next Write.
DropReceiver ==
    /\ day = 7
    /\ status = "running"
    /\ out_open
    /\ Current(day, Machine).kind = "Some"
    /\ Current(day, Machine).opcode = "Write"
    /\ out_open' = FALSE
    /\ acted' = "env"
    /\ UNCHANGED <<search, chain, wide, ring, stores, day, build, program, memory, ip, relative_base, last_output, status,
                   inq, in_open, outq, steps, prev, orderings, driver>>

\* Mutant: a reset that leaves relative_base as it is.
ResetKeepsBase ==
    /\ day = 15
    /\ status = "running"
    /\ acted = "step"
    /\ program \notin ReferencePrograms \cup RunToEnd
    /\ memory' = program
    /\ ip' = 0
    /\ prev' = Machine
    /\ acted' = "reset"
    /\ stores' = <<>>
    /\ UNCHANGED <<day, build, program, last_output, status, inq, in_open, outq, out_open,
                   steps, wide, ring, search, chain, relative_base, orderings, driver>>

\* Interpreter::reset of day 15, called by the driver in the body of
\* `while interpreter.step()`, after a step that returned true: the memory is replaced by a clone of the program, ip
\* and relative_base return to 0; last_output and the channels stay.  The
\* reference programs and the programs followed to their end are run in
\* one piece, without it.
Reset ==
    /\ day = 15
    /\ status = "running"
    /\ acted = "step"
    /\ program \notin ReferencePrograms \cup RunToEnd
    /\ memory' = program
    /\ ip' = 0
    /\ relative_base' = 0
    /\ prev' = Machine
    /\ acted' = "reset"
    /\ stores' = <<>>
    /\ UNCHANGED <<day, build, program, last_output, status, inq, in_open, outq, out_open,
                   steps, wide, ring, search, chain, orderings, driver>>

\* Interpreter::step called once more after it has returned false for a
\* Halt: it fetches and executes at the ip the machine stopped at.  After
\* a panic there is no such call: the unwinding ends the thread that owns
\* the Interpreter.
StepAgain ==
    /\ day >= 7
    /\ status = "halted"
    /\ Becomes(StepOf(day, build, Machine))
    /\ prev' = Machine
    /\ acted' = "again"
    /\ UNCHANGED <<day, build, program, steps, stores, wide, ring, search, chain, orderings, driver>>

Next == Run02 \/ Run05 \/ Step \/ Send \/ DropSender \/ DropReceiver \/ StepAgain \/ Reset

Spec == Init /\ [][Next]_vars

\* ======================================================================
\* The specification's own reading of an instruction cell (section 3), used
\* to state the claims independently of fetch.
SpecOpcode(v) == v % 100
SpecModeDigit(v, k) == (v \div (CASE k = 1 -> 100 [] k = 2 -> 1000 [] OTHER -> 10000)) % 10
SpecModeName(digit) == <<"Position", "Immediate", "Relative">>[digit + 1]

\* The opcodes and mode digits the variant d defines.
DefinedOpcodes(d) ==
    IF d >= 9 THEN {1, 2, 3, 4, 5, 6, 7, 8, 9, 99}
    ELSE IF d = 7 THEN {1, 2, 3, 4, 5, 6, 7, 8, 99} ELSE {1, 2, 99}
DefinedModes(d) == IF d >= 9 THEN {0, 1, 2} ELSE IF d >= 5 THEN {0, 1} ELSE {0}

\* ------------------------------------------------------------------ C1
\* C1: on every variant the program 1,9,10,3,2,3,11,0,99,30,40,50 runs from
\* ip 0 to Halt in three instructions without a fault, and address 0 then
\* holds 3500.
C1_Halts3500 ==
    program = Prog3500 =>
        /\ status \in {"running", "halted"}
        /\ status = "running" => steps < 3 /\ ~Blocked(day, Machine)
        /\ status = "halted" => steps = 3 /\ memory[1] = 3500

C1_Witness ==
    program = Prog3500 /\ status = "halted" /\ memory[1] = 3500 /\ day = 2

\* ------------------------------------------------------------------ C2
\* C2: on every variant that decodes parameter modes (days 05..15) the
\* program 1002,4,3,4,33 runs from ip 0 to Halt without a fault, and address
\* 4 then holds 99.
C2_Halts99 ==
    program = Prog1002 /\ day >= 5 =>
        /\ status \in {"running", "halted"}
        /\ status = "running" => steps < 2 /\ ~Blocked(day, Machine)
        /\ status = "halted" => steps = 2 /\ memory[5] = 99

\* ------------------------------------------------------------------ C3
\* C3: for a cell v >= 0 at ip whose opcode and mode digits the variant
\* defines, fetch yields opcode v mod 100, and parameter k has the mode named
\* by the decimal digit (v / 100, / 1000, / 10000) mod 10 and the raw cell at
\* ip + k.
C3_Decodable(d, v) ==
    /\ v >= 0
    /\ SpecOpcode(v) \in DefinedOpcodes(d)
    /\ \A k \in 1..3 : SpecModeDigit(v, k) \in DefinedModes(d)

C3_FetchDecodes ==
    (day >= 5 /\ ip >= 0 /\ ip < Len(memory) /\ C3_Decodable(day, memory[ip + 1])) =>
        LET v == memory[ip + 1]
            ins == fetch(day, ip, memory)
        IN  /\ ins.kind = "Some"
            /\ ins.opcode = OpcodeFrom(day, SpecOpcode(v))
            /\ \A k \in 1..3 :
                 /\ ins.parameters[k].mode = SpecModeName(SpecModeDigit(v, k))
                 /\ ins.parameters[k].value = GetOr0(memory, ip + k)

\* ======================================================================
\* The opcode table of section 4.3, stated on a machine P before a step and
\* the variables after it.  Addresses and values follow section 3: Position
\* is the cell at raw, Immediate is raw, Relative is the cell at raw +
\* relative_base, and a cell past the end of the store reads as 0.
SpecRead(mem, a) == IF a >= 0 /\ a < Len(mem) THEN mem[a + 1] ELSE 0
CellAt(P) == P.memory[P.ip + 1]
Raw(P, k) == SpecRead(P.memory, P.ip + k)
Digit(P, k) == SpecModeDigit(CellAt(P), k)
SpecAddress(P, k) == IF Digit(P, k) = 2 THEN Raw(P, k) + P.relative_base ELSE Raw(P, k)
SpecResolve(P, k) ==
    IF Digit(P, k) = 1 THEN Raw(P, k) ELSE SpecRead(P.memory, SpecAddress(P, k))

\* P is about to execute an instruction with one of the opcodes ops, whose
\* mode digits the variant defines.
InstructionAt(P, ops) ==
    /\ P.status = "running"
    /\ P.ip >= 0 /\ P.ip < Len(P.memory)
    /\ C3_Decodable(day, CellAt(P))
    /\ SpecOpcode(CellAt(P)) \in ops

\* Parameter k can be read: it is Immediate or its address is not negative.
SourceOk(P, k) == Digit(P, k) = 1 \/ SpecAddress(P, k) >= 0

\* Parameter k can be written: Position or Relative, address not negative.
DestOk(P, k) == Digit(P, k) \in {0, 2} /\ SpecAddress(P, k) >= 0

\* The last action was a machine instruction.
Stepped == acted = "step"

\* Every cell but dst reads as it did in P.
FrameExcept(P, dst) ==
    \A i \in 0..(Len(memory) + Len(P.memory)) :
        i # dst => SpecRead(memory, i) = SpecRead(P.memory, i)

RegistersKept(P) ==
    relative_base = P.relative_base /\ last_output = P.last_output

PortsKept(P) == inq = P.inq /\ outq = P.outq

\* dst = value, nothing else changed, ip advanced by delta.
Stored(P, dst, v, delta) ==
    /\ status = "running"
    /\ SpecRead(memory, dst) = v
    /\ FrameExcept(P, dst)
    /\ RegistersKept(P)
    /\ ip = P.ip + delta

AddMultiplyEffect(P) ==
    Stored(P, SpecAddress(P, 3),
           IF SpecOpcode(CellAt(P)) = 1 THEN SpecResolve(P, 1) + SpecResolve(P, 2)
           ELSE SpecResolve(P, 1) * SpecResolve(P, 2), 4)

CompareEffect(P) ==
    Stored(P, SpecAddress(P, 3),
           IF SpecOpcode(CellAt(P)) = 7
           THEN (IF SpecResolve(P, 1) < SpecResolve(P, 2) THEN 1 ELSE 0)
           ELSE (IF SpecResolve(P, 1) = SpecResolve(P, 2) THEN 1 ELSE 0), 4)

ReadEffect(P) ==
    /\ Stored(P, SpecAddress(P, 1), Head(P.inq), 2)
    /\ Len(inq) < Len(P.inq)
    /\ outq = P.outq

WriteEffect(P) ==
    /\ status = "running"
    /\ P.out_open => outq = Append(P.outq, SpecResolve(P, 1))
    /\ last_output = <<SpecResolve(P, 1)>>
    /\ memory = P.memory
    /\ relative_base = P.relative_base
    /\ inq = P.inq
    /\ ip = P.ip + 2

JumpTaken(P) ==
    IF SpecOpcode(CellAt(P)) = 5 THEN SpecResolve(P, 1) # 0 ELSE SpecResolve(P, 1) = 0

JumpEffect(P) ==
    /\ status = "running"
    /\ ip = IF JumpTaken(P) THEN SpecResolve(P, 2) ELSE P.ip + 3
    /\ memory = P.memory
    /\ RegistersKept(P)
    /\ PortsKept(P)

AdjustEffect(P) ==
    /\ status = "running"
    /\ relative_base = P.relative_base + SpecResolve(P, 1)
    /\ memory = P.memory
    /\ last_output = P.last_output
    /\ PortsKept(P)
    /\ ip = P.ip + 2

\* ------------------------------------------------------------------ C4
\* C4: an Add or Multiply step whose destination is in Position or Relative
\* mode stores the sum or product of the two resolved sources in the
\* destination cell, changes no other cell, leaves relative_base and
\* last_output alone and advances ip by 4.
C4_Scope(P) ==
    InstructionAt(P, {1, 2}) /\ SourceOk(P, 1) /\ SourceOk(P, 2) /\ DestOk(P, 3)

C4_AddMultiplyFrame == (Stepped /\ C4_Scope(prev)) => AddMultiplyEffect(prev)

\* ------------------------------------------------------------------ C6
\* C6: on days 07..15 a Read step stores the next value of the input port in
\* the cell designated by its first parameter, changes no other cell and
\* advances ip by 2.
C6_Scope(P) == day >= 7 /\ InstructionAt(P, {3}) /\ DestOk(P, 1) /\ P.inq # <<>>

C6_ReadStoresFirst == (Stepped /\ C6_Scope(prev)) => ReadEffect(prev)

\* ------------------------------------------------------------------ C7
\* C7: on days 07..15 a Write step pushes the resolved first parameter to
\* the output port and records it in last_output, and no other step changes
\* last_output; memory and relative_base are unchanged, ip advances by 2.
C7_Scope(P) == day >= 7 /\ InstructionAt(P, {4}) /\ SourceOk(P, 1)

C7_WriteRecordsLast ==
    /\ (Stepped /\ C7_Scope(prev)) => WriteEffect(prev)
    /\ (Stepped /\ day >= 7 /\ ~InstructionAt(prev, {4})) => last_output = prev.last_output

\* ------------------------------------------------------------------ C8
\* C8: a JumpIfTrue (JumpIfFalse) step sets ip to the resolved second
\* parameter when the resolved first parameter is non-zero (zero) and to
\* ip + 3 otherwise, and changes neither memory, relative_base, last_output
\* nor the ports.
C8_Scope(P) ==
    /\ day >= 7
    /\ InstructionAt(P, {5, 6})
    /\ SourceOk(P, 1)
    /\ JumpTaken(P) => SourceOk(P, 2)

C8_Jumps == (Stepped /\ C8_Scope(prev)) => JumpEffect(prev)

\* ------------------------------------------------------------------ C9
\* C9: a LessThan (Equals) step stores 1 in the destination when the first
\* resolved parameter is less than (equal to) the second and 0 otherwise,
\* changes no other cell and advances ip by 4.
C9_Scope(P) ==
    day >= 7 /\ InstructionAt(P, {7, 8}) /\ SourceOk(P, 1) /\ SourceOk(P, 2) /\ DestOk(P, 3)

C9_Compares ==
    (Stepped /\ C9_Scope(prev)) =>
        CompareEffect(prev) /\ SpecRead(memory, SpecAddress(prev, 3)) \in {0, 1}

\* ------------------------------------------------------------------ C10
\* C10: on days 09..15 an AdjustRelativeBase step adds its resolved first
\* parameter to relative_base, changes no cell and advances ip by 2; no
\* other step changes relative_base; and a step that reads or writes through
\* a Relative-mode parameter with raw value r uses the cell r + relative_base,
\* with the relative_base of that step.
\* The parameters the opcode at P reads, and the one it writes (0: none).
\* Day 09 stores Read's input through its third parameter.
ReadParams(P) ==
    CASE SpecOpcode(CellAt(P)) \in {1, 2, 7, 8} -> {1, 2}
      [] SpecOpcode(CellAt(P)) \in {4, 9} -> {1}
      [] SpecOpcode(CellAt(P)) \in {5, 6} -> IF JumpTaken(P) THEN {1, 2} ELSE {1}
      [] OTHER -> {}
WrittenParam(P) ==
    CASE SpecOpcode(CellAt(P)) \in {1, 2, 7, 8} -> 3
      [] SpecOpcode(CellAt(P)) = 3 -> IF day = 9 THEN 3 ELSE 1
      [] OTHER -> 0

\* P executes an instruction whose accesses all resolve, one of them through
\* a Relative-mode parameter.
C10_UsesRelative(P) ==
    /\ day >= 9
    /\ InstructionAt(P, {1, 2, 3, 4, 5, 6, 7, 8, 9})
    /\ \A k \in ReadParams(P) : SourceOk(P, k)
    /\ WrittenParam(P) # 0 => DestOk(P, WrittenParam(P))
    /\ SpecOpcode(CellAt(P)) = 3 => P.inq # <<>>
    /\ \E k \in ReadParams(P) \cup ({WrittenParam(P)} \ {0}) : Digit(P, k) = 2

C10_Effect(P) ==
    CASE SpecOpcode(CellAt(P)) \in {1, 2} -> AddMultiplyEffect(P)
      [] SpecOpcode(CellAt(P)) \in {7, 8} -> CompareEffect(P)
      [] SpecOpcode(CellAt(P)) = 3 -> Stored(P, SpecAddress(P, WrittenParam(P)), Head(P.inq), 2)
      [] SpecOpcode(CellAt(P)) = 4 -> WriteEffect(P)
      [] SpecOpcode(CellAt(P)) \in {5, 6} -> JumpEffect(P)
      [] OTHER -> AdjustEffect(P)

DecimalMagnitudes ==
    {<<>>, <<2>>,
     <<3, 0, 3, 7, 0, 0, 0, 4, 9, 9>>,
     <<3, 0, 3, 7, 0, 0, 0, 5, 0, 0>>,
     <<4, 2, 9, 4, 9, 6, 7, 2, 9, 6>>,
     <<1, 0, 0, 0, 0, 0, 0, 0, 0, 0, 0, 0, 0, 0, 0>>,
     <<9, 9, 9, 9, 9, 9, 9, 9, 9, 9, 9, 9, 9, 9, 9>>}

WideOperands == {Wide(neg, m) : neg \in BOOLEAN, m \in DecimalMagnitudes}

\* 10^15
TenTo15 == NatOfDecimal(<<1, 0, 0, 0, 0, 0, 0, 0, 0, 0, 0, 0, 0, 0, 0, 0>>)

\* `x.trim().parse().unwrap()` of a decimal cell: None when the number does
\* not fit the cell type.
ParseCell(d, neg, digits) ==
    LET z == Wide(neg, digits) IN IF FitsSigned(CellBits(d), z) THEN <<z>> ELSE <<>>

\* The literals 2^50 (section 8) and 2^63, which no i64 holds.
WideLiterals ==
    {<<1, 1, 2, 5, 8, 9, 9, 9, 0, 6, 8, 4, 2, 6, 2, 4>>,
     <<9, 2, 2, 3, 3, 7, 2, 0, 3, 6, 8, 5, 4, 7, 7, 5, 8, 0, 8>>}

\* The program 104,<literal>,99 as main parses it.
WriteLiteral(d, digits) ==
    IF ParseCell(d, FALSE, digits) = <<>> THEN <<>>
    ELSE <<104, ParseCell(d, FALSE, digits)[1], 99>>

\* Two operands for one Multiply.
InitWideOperands ==
    \E d \in Days, b \in Builds, x \in WideOperands, y \in WideOperands :
      /\ day = d
      /\ build = b
      /\ wide = [a |-> x, b |-> y, status |-> "running", result |-> Wide(FALSE, <<>>)]
      /\ driver = NoDriver
      /\ program = <<>>
      /\ memory = <<>>
      /\ ip = 0
      /\ relative_base = 0
      /\ last_output = <<>>
      /\ status = "running"
      /\ inq = <<>>
      /\ in_open = TRUE
      /\ outq = <<>>
      /\ out_open = TRUE
      /\ steps = 0
      /\ prev = new(<<>>, <<>>, TRUE, TRUE)
      /\ acted = "init"
      /\ stores = <<>>
      /\ ring = NoRing
      /\ orderings = NoOrderings
      /\ search = NoSearch
      /\ chain = NoChain

\* A machine of days 07..15 loaded with 104,<literal>,99; main panics in
\* parse when the literal does not fit the cell type.
InitWideProgram ==
    \E d \in Days \ {2, 5}, b \in Builds, digits \in WideLiterals :
      /\ day = d
      /\ build = b
      /\ wide = [NoWide EXCEPT !.a = Wide(FALSE, digits)]
      /\ driver = NoDriver
      /\ program = WriteLiteral(d, digits)
      /\ memory = WriteLiteral(d, digits)
      /\ ip = 0
      /\ relative_base = 0
      /\ last_output = <<>>
      /\ status = IF WriteLiteral(d, digits) = <<>> THEN "panic_unwrap" ELSE "running"
      /\ inq = <<>>
      /\ in_open = TRUE
      /\ outq = <<>>
      /\ out_open = TRUE
      /\ steps = 0
      /\ prev = new(WriteLiteral(d, digits), <<>>, TRUE, TRUE)
      /\ acted = "init"
      /\ stores = <<>>
      /\ ring = NoRing
      /\ orderings = NoOrderings
      /\ search = NoSearch
      /\ chain = NoChain

\* A jump to a target beyond the model checker's integers.  Here ip is the
\* value of `self.ip` as a Wide record throughout, and so is the target
\* cell.
\* The limbs as an integer.
RECURSIVE NatToInt(_)
NatToInt(x) == IF x = <<>> THEN 0 ELSE Head(x) + LimbBase * NatToInt(Tail(x))

\* `ip as usize` in fetch: the low 64 bits of the two's complement of ip.
\* An index of more than three limbs is past the end of every vector (-1).
AsUsize(z) ==
    LET low == NatLow(z.mag, 64)
        u == IF z.neg /\ low # <<>> THEN NatSub(Pow2(64), low) ELSE low
    IN  IF Len(u) > 3 THEN -1 ELSE NatToInt(u)

\* The targets -1, 7, 2^63, 2^64 and 2^64 + 3.
JumpTargets ==
    {<<TRUE, <<1>>>>, <<FALSE, <<7>>>>,
     <<FALSE, <<9, 2, 2, 3, 3, 7, 2, 0, 3, 6, 8, 5, 4, 7, 7, 5, 8, 0, 8>>>>,
     <<FALSE, <<1, 8, 4, 4, 6, 7, 4, 4, 0, 7, 3, 7, 0, 9, 5, 5, 1, 6, 1, 6>>>>,
     <<FALSE, <<1, 8, 4, 4, 6, 7, 4, 4, 0, 7, 3, 7, 0, 9, 5, 5, 1, 6, 1, 9>>>>}

\* The program 1105,1,<target>,99 as main parses it.
JumpTo(d, t) ==
    IF ParseCell(d, t[1], t[2]) = <<>> THEN <<>>
    ELSE <<1105, 1, ParseCell(d, t[1], t[2])[1], 99>>

\* A machine of days 07..15 loaded with 1105,1,<target>,99.
InitWideJump ==
    \E d \in Days \ {2, 5}, b \in Builds, t \in JumpTargets :
      /\ day = d
      /\ build = b
      /\ wide = [NoWide EXCEPT !.a = Wide(t[1], t[2]), !.status = "jump"]
      /\ driver = NoDriver
      /\ program = JumpTo(d, t)
      /\ memory = JumpTo(d, t)
      /\ ip = Wide(FALSE, <<>>)
      /\ relative_base = 0
      /\ last_output = <<>>
      /\ status = IF JumpTo(d, t) = <<>> THEN "panic_unwrap" ELSE "running"
      /\ inq = <<>>
      /\ in_open = TRUE
      /\ outq = <<>>
      /\ out_open = TRUE
      /\ steps = 0
      /\ prev = [new(JumpTo(d, t), <<>>, TRUE, TRUE) EXCEPT !.ip = Wide(FALSE, <<>>)]
      /\ acted = "init"
      /\ stores = <<>>
      /\ ring = NoRing
      /\ orderings = NoOrderings
      /\ search = NoSearch
      /\ chain = NoChain

InitWide == InitWideOperands \/ InitWideProgram \/ InitWideJump

\* Opcode::Multiply with both sources resolved to wide.a and wide.b.
WideMultiply ==
    /\ wide.status = "running"
    /\ LET r == Multiply(day, build, wide.a, wide.b)
       IN  wide' = [wide EXCEPT !.status = r.status, !.result = r.result]
    /\ UNCHANGED <<day, build, program, memory, ip, relative_base, last_output,
                   status, inq, in_open, outq, out_open, steps, prev, acted, stores, ring,
                   search, chain, orderings, driver>>

\* Interpreter::step on the program of InitWideProgram.
WideStep == wide.status = "unused" /\ Step

\* Interpreter::step on the program of InitWideJump: the instruction is
\* fetched at `ip as usize`.  The instructions of that program are a jump
\* that is taken, which assigns the target cell to ip, and Halt, which
\* leaves ip; a step that faults leaves it too.
WideJump ==
    /\ wide.status = "jump"
    /\ status = "running"
    /\ steps < MaxSteps
    /\ \E N \in {step(day, build, [Machine EXCEPT !.ip = AsUsize(ip)])} :
          Becomes([N EXCEPT !.ip = IF N.status = "running" THEN N.ip ELSE ip])
    /\ prev' = Machine
    /\ acted' = "step"
    /\ steps' = steps + 1
    /\ UNCHANGED <<day, build, program, stores, wide, ring, search, chain, orderings, driver>>

NextWide == WideMultiply \/ WideStep \/ WideJump

SpecWide == InitWide /\ [][NextWide]_vars

\* ------------------------------------------------------------------ C5
\* C5: on every variant a Multiply of two values of up to 15 decimal digits
\* stores the exact product: no overflow, wrap or fault.
C5_ExactProduct ==
    (/\ wide.status \in {"stored", "panic_overflow"}
     /\ NatLess(wide.a.mag, TenTo15)
     /\ NatLess(wide.b.mag, TenTo15)) =>
        wide.status = "stored" /\ wide.result = WideProduct(wide.a, wide.b)

\* ------------------------------------------------------------------ C11
\* C11: on every variant, when the cell at ip has an opcode (cell mod 100)
\* that the variant does not define, the step ends in a fault: the run does
\* not end as a Halt does and does not continue past the instruction.
C11_UnknownOpcode(P) ==
    /\ P.status = "running"
    /\ P.ip >= 0 /\ P.ip < Len(P.memory)
    /\ SpecOpcode(CellAt(P)) \notin DefinedOpcodes(day)

C11_IllegalOpcodeFaults ==
    (Stepped /\ C11_UnknownOpcode(prev)) =>
        /\ IsPanic(status)
        /\ memory = prev.memory
        /\ ip = prev.ip
        /\ RegistersKept(prev)
        /\ PortsKept(prev)

\* The same on the variants that decode through Opcode::from (days 05..15).
C11_FaultsFromDay05 == day >= 5 => C11_IllegalOpcodeFaults

C11_WitnessFromDay05 ==
    Stepped /\ C11_UnknownOpcode(prev) /\ day >= 9 /\ status = "panic_opcode"

\* ------------------------------------------------------------------ C12
\* C12: a step of Add, Multiply, Read, LessThan or Equals whose destination
\* parameter is in Immediate mode ends in a fault and changes no memory
\* cell, not ip and not relative_base.  The destination is the third
\* parameter, for Read the first.
C12_Destination(P) == IF SpecOpcode(CellAt(P)) = 3 THEN 1 ELSE 3

C12_Scope(P) ==
    /\ day >= 5
    /\ P.status = "running"
    /\ P.ip >= 0 /\ P.ip < Len(P.memory)
    /\ CellAt(P) >= 0
    /\ SpecOpcode(CellAt(P)) \in {1, 2, 3, 7, 8} \cap DefinedOpcodes(day)
    /\ Digit(P, C12_Destination(P)) = 1

C12_Unchanged(P) ==
    /\ IsPanic(status)
    /\ memory = P.memory
    /\ ip = P.ip
    /\ relative_base = P.relative_base

C12_ImmediateDestinationFaults == (Stepped /\ C12_Scope(prev)) => C12_Unchanged(prev)

\* The same without the two variants that take the destination's mode from
\* elsewhere: day 05 (C3) and the Read of day 09 (C6).
C12_FaultsWhereDecoded ==
    (/\ Stepped
     /\ C12_Scope(prev)
     /\ day # 5
     /\ ~(day = 9 /\ SpecOpcode(CellAt(prev)) = 3)) => C12_Unchanged(prev)

C12_WitnessWhereDecoded ==
    /\ Stepped /\ C12_Scope(prev) /\ day = 15
    /\ SpecOpcode(CellAt(prev)) = 3
    /\ status = "panic_immediate"

\* ------------------------------------------------------------------ C13
\* C13: on days 09..15 a step that reads or writes through a Position or
\* Relative parameter whose address (raw, or raw + relative_base) is
\* negative ends in a fault, yields no value and changes no memory cell.
C13_Written(P) ==
    CASE SpecOpcode(CellAt(P)) \in {1, 2, 7, 8} -> {3}
      [] SpecOpcode(CellAt(P)) = 3 -> {1}
      [] OTHER -> {}

C13_Negative(P, k) == Digit(P, k) # 1 /\ SpecAddress(P, k) < 0

C13_Scope(P) ==
    /\ day >= 9
    /\ InstructionAt(P, {1, 2, 3, 4, 5, 6, 7, 8, 9})
    /\ \E k \in ReadParams(P) \cup C13_Written(P) : C13_Negative(P, k)

C13_Faulted(P) == IsPanic(status) /\ memory = P.memory /\ ip = P.ip

C13_NegativeAddressFaults == (Stepped /\ C13_Scope(prev)) => C13_Faulted(prev)

\* The part of it the later variants keep: a negative destination on days
\* 11..15, where value_mut converts the address with usize::try_from.
C13_NegativeWriteFaults ==
    (/\ Stepped
     /\ day >= 11
     /\ C13_Scope(prev)
     /\ \E k \in C13_Written(prev) : C13_Negative(prev, k)) => C13_Faulted(prev)

\* ------------------------------------------------------------------ C14
\* C14: on the variants with parameter modes (days 05..15) a Position or
\* Relative source parameter whose address is not negative, lies beyond the
\* initial program and was never written resolves to 0; the step does not
\* fault and the run goes on with the effect of section 4.3.
\* The addresses assigned before the last instruction.
WrittenBefore == UNION {stores[i] : i \in 1..(Len(stores) - 1)}

C14_Unwritten(P, k) ==
    /\ Digit(P, k) # 1
    /\ SpecAddress(P, k) >= Len(program)
    /\ SpecAddress(P, k) \notin WrittenBefore

\* P executes an instruction that reads such a parameter; its destination,
\* if it has one, is a cell the variant can store to.
C14_Scope(P) ==
    /\ day >= 5
    /\ InstructionAt(P, {1, 2, 4, 5, 6, 7, 8, 9})
    /\ \A k \in ReadParams(P) : SourceOk(P, k)
    /\ WrittenParam(P) # 0 =>
          /\ DestOk(P, WrittenParam(P))
          /\ day >= 9 \/ SpecAddress(P, WrittenParam(P)) < Len(P.memory)
    /\ \E k \in ReadParams(P) : C14_Unwritten(P, k)

C14_ReadsZero(P) ==
    /\ \A k \in ReadParams(P) :
          C14_Unwritten(P, k) => SpecRead(P.memory, SpecAddress(P, k)) = 0
    /\ C10_Effect(P)

C14_UnsetReadsZero == (Stepped /\ C14_Scope(prev)) => C14_ReadsZero(prev)

\* The same on the variants whose value() ends in unwrap_or(&0).
C14_ReadsZeroFromDay09 == day >= 9 => C14_UnsetReadsZero

C14_WitnessFromDay09 ==
    /\ Stepped /\ C14_Scope(prev) /\ day = 15
    /\ InstructionAt(prev, {4}) /\ outq = <<0>>

\* ------------------------------------------------------------------ C15
\* C15: on the variants with parameter modes (days 05..15) a store through
\* a Position or Relative destination at or past the end of memory
\* succeeds: the cell takes the value, the cells between the old end and it
\* read as 0, the cells that existed keep their values, and the cell keeps
\* the value until an instruction assigns it again.
\* P executes a storing instruction whose sources the variant can read and
\* whose destination lies at or past the end of memory.
C15_Scope(P) ==
    /\ day >= 5
    /\ InstructionAt(P, {1, 2, 3, 7, 8})
    /\ \A k \in ReadParams(P) :
          /\ SourceOk(P, k)
          /\ day >= 9 \/ Digit(P, k) = 1 \/ SpecAddress(P, k) < Len(P.memory)
    /\ SpecOpcode(CellAt(P)) = 3 => P.inq # <<>>
    /\ DestOk(P, C12_Destination(P))
    /\ SpecAddress(P, C12_Destination(P)) >= Len(P.memory)

C15_Grown(P) ==
    /\ CASE SpecOpcode(CellAt(P)) \in {1, 2} -> AddMultiplyEffect(P)
         [] SpecOpcode(CellAt(P)) \in {7, 8} -> CompareEffect(P)
         [] OTHER -> Stored(P, SpecAddress(P, 1), Head(P.inq), 2)
    /\ Len(memory) > SpecAddress(P, C12_Destination(P))
    /\ \A i \in Len(P.memory)..(SpecAddress(P, C12_Destination(P)) - 1) : memory[i + 1] = 0

\* A step that goes on changes no cell but those it assigns.
C15_Retained(P) ==
    (day >= 5 /\ status = "running") =>
        \A i \in 0..(Len(memory) + Len(P.memory)) :
            i \notin stores[Len(stores)] => SpecRead(memory, i) = SpecRead(P.memory, i)

C15_WritePastEndGrows ==
    /\ (Stepped /\ C15_Scope(prev)) => C15_Grown(prev)
    /\ Stepped => C15_Retained(prev)

\* The same on the variants whose value_mut resizes, the Read of day 09
\* taken with the parameter it stores through (C6).
C15_GrowsFromDay09 ==
    (day >= 9 /\ ~(day = 9 /\ Stepped /\ InstructionAt(prev, {3}))) => C15_WritePastEndGrows

C15_WitnessFromDay09 ==
    /\ Stepped /\ C15_Scope(prev) /\ day = 11
    /\ SpecAddress(prev, C12_Destination(prev)) > Len(prev.memory)
    /\ Len(memory) > Len(prev.memory) + 1

\* ------------------------------------------------------------------ C16
\* C16: a further call of step on a machine that has executed Halt changes
\* neither memory, ip, relative_base, last_output nor the contents of the
\* two ports, and does not restart at ip 0; a machine that has faulted takes
\* no further step at all (days 07..15, the variants that have step).
C16_StepAfterEndIsNoOp ==
    /\ acted = "again" =>
          /\ memory = prev.memory
          /\ ip = prev.ip
          /\ relative_base = prev.relative_base
          /\ last_output = prev.last_output
          /\ inq = prev.inq
          /\ outq = prev.outq
          /\ status = "halted"
    /\ (day >= 7 /\ acted \in {"step", "again"}) => prev.status \in {"running", "halted"}

\* A second call on a machine that halted away from ip 0 with changed memory.
C16_Witness ==
    /\ acted = "again" /\ day = 15
    /\ ip > 0 /\ memory # program

\* ------------------------------------------------------------------ C17
\* C17: on days 09..15 the program Quine, given no input, halts without a
\* fault after writing exactly its own cells, in order, to the output port.
\* Each of its Len(Quine) rounds takes five instructions, the Write being
\* the second, then Halt.
C17_QuineReproduces ==
    (program = Quine /\ day >= 9) =>
        /\ ~IsPanic(status)
        /\ status = "running" =>
              /\ steps <= 5 * Len(Quine)
              /\ Len(outq) = (steps + 3) \div 5
              /\ outq = SubSeq(Quine, 1, Len(outq))
        /\ status = "halted" => outq = Quine /\ steps = 5 * Len(Quine) + 1
        /\ last_output = IF outq = <<>> THEN <<>> ELSE <<outq[Len(outq)]>>

C17_Witness ==
    /\ program = Quine /\ day = 9 /\ status = "halted"
    /\ outq = Quine /\ steps = 5 * Len(Quine) + 1

\* ------------------------------------------------------------------ C18
\* C18: the program 104,1125899906842624,99, run from ip 0, writes exactly
\* one value to the output port, 1125899906842624 = 2^50 untruncated,
\* records it as last_output, and then halts (days 07..15, the variants
\* with Write).
C18_Value == [neg |-> FALSE, mag |-> Pow2(50)]

C18_Loaded == wide.status = "unused" /\ wide.a = C18_Value

C18_WritesWideValue ==
    C18_Loaded =>
        /\ status \in {"running", "halted"}
        /\ steps = 0 => status = "running" /\ outq = <<>>
        /\ steps >= 1 => outq = <<C18_Value>> /\ last_output = <<C18_Value>>
        /\ steps = 1 => status = "running"
        /\ steps >= 2 => status = "halted" /\ steps = 2

\* The same without day 07, whose Write records last_output only when the
\* send fails (C7).
C18_WritesFromDay09 == day >= 9 => C18_WritesWideValue

C18_WitnessFromDay09 ==
    /\ C18_Loaded /\ day = 15 /\ status = "halted"
    /\ outq = <<C18_Value>> /\ last_output = <<C18_Value>>

\* ======================================================================
\* The feedback ring of day 07 (part2): five threads, each running an
\* Interpreter on a copy of the program, thread k receiving on channel k and
\* sending on channel k + 1, the last one on channel 1.
\* The amplifier-controller program of section 8 and its phase settings.
AmplifierController ==
    <<3, 26, 1001, 26, -4, 26, 3, 27, 1002, 27, 2, 27, 1, 27, 26, 27, 4, 27,
      1001, 28, -1, 28, 1005, 28, 6, 99, 0, 0, 5>>
PhaseSettings == <<9, 8, 7, 6, 5>>

Amplifiers == 1..Len(PhaseSettings)
\* Mutant: every thread is handed the sender of its own channel.
DownstreamIsSelf(k) == k

Downstream(k) == IF k = Len(PhaseSettings) THEN 1 ELSE k + 1
Upstream(k) == IF k = 1 THEN Len(PhaseSettings) ELSE k - 1

\* A thread lives until its Interpreter::run returns or panics; the
\* Interpreter and with it both channel ends are then dropped.  Nothing but
\* the drop is visible to the other threads, so Halt and the drop are one
\* step.
Alive(k) == ring.m[k].status = "running"

\* The Interpreter of thread k, with its two channels as they are now.
RingMachine(k) ==
    [memory |-> ring.m[k].memory, ip |-> ring.m[k].ip, relative_base |-> 0,
     last_output |-> ring.m[k].last_output, status |-> ring.m[k].status,
     inq |-> ring.chan[k], in_open |-> Alive(Upstream(k)),
     outq |-> <<>>, out_open |-> Alive(Downstream(k))]

\* The value the next step of M passes to send(), if it is a Write.
Sends(M) ==
    IF Current(7, M).kind = "Some" /\ Current(7, M).opcode = "Write"
       /\ step(7, "release", M).status = "running"
    THEN <<value(7, M, Current(7, M).parameters[1]).v>>
    ELSE <<>>

\* Mutant: the seed is sent to channel 1 before its phase.
SeedBeforePhase(k) == IF k = 1 THEN <<0, PhaseSettings[k]>> ELSE <<PhaseSettings[k]>>

\* tx_a.send(a) .. tx_e.send(e), then tx_a.send(0): what channel k holds
\* when the threads are spawned.
SentBeforeSpawn(k) == IF k = 1 THEN <<PhaseSettings[k], 0>> ELSE <<PhaseSettings[k]>>

\* part2: each channel gets its phase, channel 1 also the seed 0, then the
\* five threads are spawned.
InitRing ==
    /\ ring = [m |-> [k \in Amplifiers |->
                        [memory |-> AmplifierController, ip |-> 0,
                         last_output |-> <<>>, status |-> "running"]],
               chan |-> [k \in Amplifiers |-> SentBeforeSpawn(k)],
               sent |-> [k \in Amplifiers |-> <<>>]]
    /\ day = 7
    /\ build = "release"
    /\ program = AmplifierController
    /\ memory = <<>>
    /\ ip = 0
    /\ relative_base = 0
    /\ last_output = <<>>
    /\ status = "running"
    /\ inq = <<>>
    /\ in_open = TRUE
    /\ outq = <<>>
    /\ out_open = TRUE
    /\ steps = 0
    /\ prev = new(<<>>, <<>>, TRUE, TRUE)
    /\ acted = "init"
    /\ stores = <<>>
    /\ wide = NoWide
    /\ driver = NoDriver
    /\ search = NoSearch
    /\ chain = NoChain
    /\ orderings = NoOrderings

\* One Interpreter::step of thread k; a Read on an empty channel whose
\* sender lives waits in recv().
RingStep(k) ==
    /\ Alive(k)
    /\ \E M \in {RingMachine(k)} :
          /\ ~Blocked(7, M)
          /\ \E N \in {step(7, "release", M)} :
                ring' = [m |-> [ring.m EXCEPT ![k] =
                                  [memory |-> N.memory, ip |-> N.ip,
                                   last_output |-> N.last_output, status |-> N.status]],
                         chan |-> [j \in Amplifiers |->
                                     IF j = k THEN N.inq
                                     ELSE IF j = Downstream(k) THEN ring.chan[j] \o N.outq
                                     ELSE ring.chan[j]],
                         sent |-> [ring.sent EXCEPT ![k] = @ \o Sends(M)]]
    /\ acted' = "ring"
    /\ UNCHANGED <<day, build, program, memory, ip, relative_base, last_output,
                   status, inq, in_open, outq, out_open, steps, prev, stores, wide,
                   search, chain, orderings, driver>>

NextRing == \E k \in Amplifiers : RingStep(k)

SpecRing == InitRing /\ [][NextRing]_vars

\* All five threads have been joined; the last one returned its last_output.
RingEnded == \A k \in Amplifiers : ~Alive(k)
RingResult == ring.m[Len(PhaseSettings)].last_output

\* ------------------------------------------------------------------ C19
\* C19: the ring of five machines running AmplifierController with the
\* phase settings 9,8,7,6,5 and the seed 0 yields 139629729 once all five
\* machines have halted, whatever the interleaving of the threads.
C19_RingYields ==
    /\ \A k \in Amplifiers : ring.m[k].status \in {"running", "halted"}
    /\ RingEnded => RingResult = <<139629729>>

\* ------------------------------------------------------------------ C20
\* C20: in the ring, once all machines have halted, the value reported for
\* the ring is present and is the last value the last machine wrote,
\* whether or not the first machine had dropped its receiver by then.
C20_ReportsLastWrite ==
    RingEnded =>
        /\ RingResult # <<>>
        /\ ring.sent[Len(PhaseSettings)] # <<>>
        /\ RingResult = <<ring.sent[Len(PhaseSettings)][Len(ring.sent[Len(PhaseSettings)])]>>

\* What the ring does compute: every thread halts, the last value the last
\* machine writes is 139629729, and the reported value is that one or none.
C19_RingComputes ==
    /\ \A k \in Amplifiers : ring.m[k].status \in {"running", "halted"}
    /\ RingEnded =>
          /\ Len(ring.sent[Len(PhaseSettings)]) = 5
          /\ ring.sent[Len(PhaseSettings)][5] = 139629729
          /\ RingResult \in {<<>>, <<139629729>>}

C19_WitnessReported == RingEnded /\ RingResult = <<139629729>>
C20_WitnessAbsent == RingEnded /\ RingResult = <<>>

\* ======================================================================
\* The ring with one operating-system thread per machine: while some thread
\* can take a step, a step is eventually taken.  Weak fairness of every
\* single thread implies this condition, so what holds here holds under
\* per-thread fairness as well.
FairSpecRing == SpecRing /\ WF_vars(NextRing)

\* Thread k waits in recv(): its next instruction is a Read, its channel is
\* empty and the sender lives.
RingBlocked(k) == Alive(k) /\ Blocked(7, RingMachine(k))

\* ------------------------------------------------------------------ C21
\* C21: with weak fairness for every thread the ring always reaches the
\* state where all five machines have executed Halt; no reachable state has
\* every machine that has not halted waiting on an empty channel, and no
\* thread panics, so the five joins return.
C21_RingHalts ==
    /\ [](\A k \in Amplifiers : ring.m[k].status \in {"running", "halted"})
    /\ [](RingEnded \/ \E k \in Amplifiers : Alive(k) /\ ~RingBlocked(k))
    /\ <>(\A k \in Amplifiers : ring.m[k].status = "halted")

\* All five threads have halted after five rounds each, while some thread
\* had to wait on the way.
C21_Witness ==
    /\ \A k \in Amplifiers : ring.m[k].status = "halted" /\ Len(ring.sent[k]) = 5
    /\ ring.chan[1] \in {<<>>, <<139629729>>}

\* ------------------------------------------------------------------ C22
\* C22: a Read on an input channel that is empty and has no sender left
\* (the producing machine's thread has ended) ends the machine normally
\* with a closed-port signal; it is not a panic of the machine's thread, so
\* the join of that thread does not fail.
C22_Scope(P) ==
    /\ day = 7
    /\ InstructionAt(P, {3})
    /\ P.inq = <<>>
    /\ ~P.in_open

C22_ClosedPortEndsNormally == (Stepped /\ C22_Scope(prev)) => ~IsPanic(status)

\* What the code does: recv() returns Err, unwrap() panics and unwinds the
\* thread with the machine as it was; JoinHandle::join then returns Err.
C22_ClosedPortPanics ==
    (Stepped /\ C22_Scope(prev)) =>
        /\ status = "panic_recv"
        /\ memory = prev.memory /\ ip = prev.ip /\ outq = prev.outq

C22_WitnessPanics == Stepped /\ C22_Scope(prev) /\ status = "panic_recv"

\* ------------------------------------------------------------------ C23
\* C23: on every variant whose input is a channel (days 07, 11, 13, 15) a
\* Read step takes exactly the oldest value of the channel and stores it:
\* the values left in the channel are the ones sent after it, in order, so
\* successive Reads store the values sent, none skipped or discarded.
C23_Scope(P) ==
    /\ day \in {7, 11, 13, 15}
    /\ InstructionAt(P, {3})
    /\ P.inq # <<>>
    /\ DestOk(P, 1)
    /\ SpecAddress(P, 1) < Len(P.memory)

C23_ReadTakesOne ==
    (Stepped /\ C23_Scope(prev)) =>
        /\ SpecRead(memory, SpecAddress(prev, 1)) = Head(prev.inq)
        /\ inq = Tail(prev.inq)

\* What the code does: the oldest value is stored on every day; the values
\* behind it stay in the channel on days 07, 11 and 15 and are thrown away
\* by the try_recv() loop of day 13.
C23_ReadDrainsOnDay13 ==
    (Stepped /\ C23_Scope(prev)) =>
        /\ SpecRead(memory, SpecAddress(prev, 1)) = Head(prev.inq)
        /\ inq = IF day = 13 THEN <<>> ELSE Tail(prev.inq)

C23_WitnessDrained ==
    Stepped /\ C23_Scope(prev) /\ day = 13 /\ Len(prev.inq) = 2 /\ inq = <<>>

\* ======================================================================
\* The machines built from one program vector: the five threads of day 07's
\* ring, and the successive runs of day 02's search for noun and verb.
\*
\* A program whose cell 0 becomes 19690720 for noun 5 and verb 6.
SearchProgram == <<1, 0, 0, 0, 99, 19690000, 720, 0, 0>>

\* `for noun in 0..100`, `for verb in 0..100`: the range followed here.
SearchRange == 7

\* Mutant: the run works on the vector the previous run has left.
Part2MemoryShared(mem, work, noun, verb) == [work EXCEPT ![2] = noun, ![3] = verb]

\* `let mut mem = (*mem).clone(); mem[1] = noun; mem[2] = verb;`
Part2Memory(mem, work, noun, verb) == [mem EXCEPT ![2] = noun, ![3] = verb]

InitSearch ==
    /\ search = [phase |-> "loop", mem |-> SearchProgram, noun |-> 0, verb |-> 0,
                 work |-> [memory |-> SearchProgram, ip |-> 0, status |-> "running"],
                 result |-> <<>>]
    /\ chain = NoChain
    /\ ring = NoRing
    /\ orderings = NoOrderings
    /\ wide = NoWide
    /\ driver = NoDriver
    /\ day = 2
    /\ build = "release"
    /\ program = SearchProgram
    /\ memory = <<>>
    /\ ip = 0
    /\ relative_base = 0
    /\ last_output = <<>>
    /\ status = "running"
    /\ inq = <<>>
    /\ in_open = TRUE
    /\ outq = <<>>
    /\ out_open = TRUE
    /\ steps = 0
    /\ prev = new(<<>>, <<>>, TRUE, TRUE)
    /\ acted = "init"
    /\ stores = <<>>

SearchUnchanged ==
    UNCHANGED <<day, build, program, memory, ip, relative_base, last_output, status,
                inq, in_open, outq, out_open, steps, prev, stores, wide, ring, chain, orderings,
                driver>>

\* The head of the loop body: the clone with noun and verb written to it.
Part2Clone ==
    /\ search.phase = "loop"
    /\ search' = [search EXCEPT
                     !.phase = "run",
                     !.work = [memory |-> Part2Memory(search.mem, search.work.memory,
                                                      search.noun, search.verb),
                               ip |-> 0, status |-> "running"]]
    /\ acted' = "search"
    /\ SearchUnchanged

\* `run(&mut mem)`: one iteration of the loop of run on the clone.
Part2Run ==
    /\ search.phase = "run"
    /\ \E N \in {run02(search.work)} :
          search' = [search EXCEPT
                       !.work = N,
                       !.phase = IF N.status = "running" THEN "run"
                                 ELSE IF N.status = "halted" THEN "test" ELSE "panic"]
    /\ acted' = "search"
    /\ SearchUnchanged

\* `if mem[0] == 19690720 { return 100 * noun + verb; }`, else the next verb
\* or noun; panic!("no solution found") after the last.
Part2Test ==
    /\ search.phase = "test"
    /\ search' =
          IF search.work.memory[1] = 19690720
          THEN [search EXCEPT !.phase = "returned",
                              !.result = <<100 * search.noun + search.verb>>]
          ELSE IF search.verb + 1 < SearchRange
          THEN [search EXCEPT !.phase = "loop", !.verb = @ + 1]
          ELSE IF search.noun + 1 < SearchRange
          THEN [search EXCEPT !.phase = "loop", !.noun = @ + 1, !.verb = 0]
          ELSE [search EXCEPT !.phase = "panic"]
    /\ acted' = "search"
    /\ SearchUnchanged

\* The ring's threads, where it is the ring that runs.
RingInstances == search.phase = "unused" /\ NextRing

InitInstances == InitRing \/ InitSearch
NextInstances == RingInstances \/ Part2Clone \/ Part2Run \/ Part2Test
SpecInstances == InitInstances /\ [][NextInstances]_vars

\* ------------------------------------------------------------------ C24
\* C24: every machine works on a private copy of the program.  The caller's
\* vector is never changed; a step changes the memory of at most one
\* machine of the ring; a machine that has not stepped yet, in the ring or
\* in a later run of the search, holds the program as the caller passed it
\* (with noun and verb written to cells 1 and 2 in the search), whatever
\* the other machines and the earlier runs have done.
C24_CallerKept == search.phase # "unused" => search.mem = program

C24_FreshRun ==
    (search.phase = "run" /\ search.work.ip = 0) =>
        search.work.memory = [program EXCEPT ![2] = search.noun, ![3] = search.verb]

C24_FreshThread ==
    search.phase = "unused" =>
        \A k \in Amplifiers :
            (ring.m[k].ip = 0 /\ Len(ring.chan[k]) > 0 /\ ring.chan[k][1] = PhaseSettings[k]
             /\ ring.sent[k] = <<>>) => ring.m[k].memory = program

C24_OneMachinePerStep ==
    search.phase = "unused" =>
        \A k \in Amplifiers : \A j \in Amplifiers \ {k} :
            ring.m[k].memory' # ring.m[k].memory => ring.m[j].memory' = ring.m[j].memory

C24_PrivateCopies ==
    /\ [](C24_CallerKept /\ C24_FreshRun /\ C24_FreshThread)
    /\ [][C24_OneMachinePerStep]_vars

\* A later run of the search starts after an earlier run has changed its
\* own copy, and the search has returned 506.
C24_Witness ==
    /\ search.phase = "returned"
    /\ search.result = <<506>>
    /\ search.work.memory # Part2Memory(program, program, 5, 6)
    /\ search.mem = SearchProgram

\* ======================================================================
\* The chain of day 07 (part1): five nested loops over the phases 0..4, one
\* call of run_cached per loop head, the signal of each ordering pushed to
\* a heap whose greatest element is returned.
\*
\* A chain program: it reads a phase and a value and writes
\* 10 * value + phase.
ChainProgram == <<3, 15, 3, 16, 1002, 16, 10, 16, 1, 16, 15, 15, 4, 15, 99, 0, 0>>

\* `from..to` with from = 0 and to = 5.
ChainPhases == {0, 1, 2, 3, 4}

\* run_cached: its body is commented out but for the final `0`.
run_cached(phase, v, mem) == 0

Least(S) == CHOOSE x \in S : \A y \in S : x <= y
Greatest(S) == CHOOSE x \in S : \A y \in S : x >= y
Elements(q) == {q[i] : i \in 1..Len(q)}

\* The loop variables a, b, .. that are bound: path.  The next loop head
\* reached in program order: one loop deeper with the least phase not
\* taken, or the next phase of the innermost loop that has one left;
\* <<>> when the outermost loop is done.
RECURSIVE NextHead(_)
NextHead(path) ==
    IF path = <<>> THEN <<>>
    ELSE LET outer == SubSeq(path, 1, Len(path) - 1)
             left == {x \in ChainPhases \ Elements(outer) : x > path[Len(path)]}
         IN  IF left = {} THEN NextHead(outer) ELSE Append(outer, Least(left))

NextCall(path) ==
    IF Len(path) < Cardinality(ChainPhases)
    THEN Append(path, Least(ChainPhases \ Elements(path)))
    ELSE NextHead(path)

InitChain ==
    /\ chain = [phase |-> "loop", path |-> <<>>, outs |-> <<>>, signals |-> <<>>,
                result |-> <<>>]
    /\ search = NoSearch
    /\ ring = NoRing
    /\ orderings = NoOrderings
    /\ wide = NoWide
    /\ driver = NoDriver
    /\ day = 7
    /\ build = "release"
    /\ program = ChainProgram
    /\ memory = <<>>
    /\ ip = 0
    /\ relative_base = 0
    /\ last_output = <<>>
    /\ status = "running"
    /\ inq = <<>>
    /\ in_open = TRUE
    /\ outq = <<>>
    /\ out_open = TRUE
    /\ steps = 0
    /\ prev = new(<<>>, <<>>, TRUE, TRUE)
    /\ acted = "init"
    /\ stores = <<>>

ChainUnchanged ==
    UNCHANGED <<day, build, program, memory, ip, relative_base, last_output, status,
                inq, in_open, outq, out_open, steps, prev, stores, wide, ring, search, orderings,
                driver>>

\* The next `let x_out = run_cached(x, w_out, &memory, &mut cache);`, and
\* `signals.push(e_out)` after the innermost one.
Part1Call ==
    /\ chain.phase = "loop"
    /\ NextCall(chain.path) # <<>>
    /\ \E p \in {NextCall(chain.path)} :
          \E out \in {run_cached(p[Len(p)],
                                  IF Len(p) = 1 THEN 0 ELSE chain.outs[Len(p) - 1],
                                  program)} :
             chain' = [chain EXCEPT
                         !.path = p,
                         !.outs = Append(SubSeq(chain.outs, 1, Len(p) - 1), out),
                         !.signals = IF Len(p) = Cardinality(ChainPhases)
                                     THEN Append(@, out) ELSE @]
    /\ acted' = "chain"
    /\ ChainUnchanged

\* `*signals.peek().unwrap()` when the loops are done.
Part1Peek ==
    /\ chain.phase = "loop"
    /\ NextCall(chain.path) = <<>>
    /\ chain' = [chain EXCEPT !.phase = "returned",
                              !.result = <<Greatest(Elements(chain.signals))>>]
    /\ acted' = "chain"
    /\ ChainUnchanged

NextChain == Part1Call \/ Part1Peek
SpecChain == InitChain /\ [][NextChain]_vars

\* ------------------------------------------------------------------ C25
\* C25: in the chain, for every ordering of the five phases, machine k is
\* given its phase and then the output of machine k - 1 (0 for the first),
\* the signal of the ordering is what the fifth machine writes when it runs
\* the program, and the result is the greatest signal.
\* A machine of day 07 run on the program until it stops.
RECURSIVE RunMachine(_, _)
RunMachine(M, fuel) ==
    IF fuel = 0 \/ M.status # "running" \/ Blocked(7, M) THEN M
    ELSE RunMachine(step(7, "release", M), fuel - 1)

\* What a machine given phase and v writes first.
MachineOutput(phase, v) ==
    Head(RunMachine(new(program, <<phase, v>>, TRUE, TRUE), Len(program)).outq)

RECURSIVE ChainSignal(_, _)
ChainSignal(path, v) ==
    IF path = <<>> THEN v
    ELSE ChainSignal(Tail(path), MachineOutput(Head(path), v))

Orderings ==
    {p \in [1..Cardinality(ChainPhases) -> ChainPhases] : Elements(p) = ChainPhases}

C25_ChainSignals ==
    chain.phase # "unused" =>
        /\ \A n \in 1..Len(chain.path) :
               chain.outs[n] = ChainSignal(SubSeq(chain.path, 1, n), 0)
        /\ chain.phase = "returned" =>
               chain.result = <<Greatest({ChainSignal(p, 0) : p \in Orderings})>>

\* What the code computes: every call yields 0, and so does part1.
C25_ChainYieldsZero ==
    chain.phase # "unused" =>
        /\ \A n \in 1..Len(chain.outs) : chain.outs[n] = 0
        /\ chain.phase = "returned" =>
               Len(chain.signals) = Cardinality(Orderings) /\ chain.result = <<0>>

C25_WitnessZero ==
    /\ chain.phase = "returned"
    /\ chain.result = <<0>>
    /\ Greatest({ChainSignal(p, 0) : p \in Orderings}) = 43210

\* ------------------------------------------------------------------ C26
\* C26: no operation on a machine (an instruction, a further call of step,
\* the reset of day 15) makes its memory shorter: an address within the
\* memory stays within it.
C26_NeverShrinks == [][Len(memory') >= Len(memory)]_vars

\* What the code keeps: the memory gets shorter only by reset, and on day 09
\* by the resize(0, 0) of a release build before it panics (C13).
C26_ShrinksByResetOnly ==
    [][(acted' # "reset" /\ ~(day = 9 /\ build = "release" /\ IsPanic(status')))
         => Len(memory') >= Len(memory)]_vars

C26_WitnessReset ==
    /\ acted = "reset"
    /\ day = 15
    /\ Len(prev.memory) > Len(memory)
    /\ memory = program

\* ------------------------------------------------------------------ C27
\* C27: a machine as constructed is running at ip 0 with relative_base 0,
\* no last_output and the program as its memory, and its first step
\* executes the instruction at address 0: a Halt there ends it at once
\* (days 05..15), and the Add at address 0 of the first reference program
\* stores 70 in cell 3 and moves ip to 4.
C27_NewMachine ==
    /\ acted = "init" =>
          /\ ip = 0 /\ relative_base = 0 /\ last_output = <<>>
          /\ memory = program /\ status = "running" /\ outq = <<>>
    /\ (Stepped /\ steps = 1) =>
          /\ prev.ip = 0 /\ prev.relative_base = 0 /\ prev.last_output = <<>>
          /\ prev.memory = program
          /\ (day >= 5 /\ program[1] = 99) => status = "halted" /\ memory = program
          /\ program = Prog3500 => memory = [program EXCEPT ![4] = 70] /\ ip = 4

C27_Witness ==
    /\ Stepped /\ steps = 1 /\ day = 15
    /\ program = Prog3500 /\ memory[4] = 70 /\ ip = 4

\* ------------------------------------------------------------------ C28
\* C28: a step decodes the cells as they are now.  On every variant the
\* program 1,1,1,4,99,5,6,0,99 overwrites the Halt at address 4 with 2, its
\* second step executes that Multiply, and it halts without a fault with
\* memory 30,1,1,4,2,5,6,0,99.
C28_Final == <<30, 1, 1, 4, 2, 5, 6, 0, 99>>

C28_Overwritten ==
    (program = SelfModifying /\ Stepped /\ steps = 2) =>
        /\ prev.memory = [SelfModifying EXCEPT ![5] = 2]
        /\ memory = C28_Final
        /\ ip = 8

C28_DecodesCurrentMemory ==
    /\ C28_Overwritten
    /\ program = SelfModifying =>
          /\ status \in {"running", "halted"}
          /\ status = "halted" => memory = C28_Final

\* What the code does: the overwritten instruction is executed on every
\* variant; the run then halts from day 05 on and panics on day 02, whose
\* run indexes the three cells behind the last Halt (C30).
C28_HaltsFromDay05 ==
    /\ C28_Overwritten
    /\ program = SelfModifying =>
          /\ status \in {"running", "halted", "panic_index"}
          /\ status = "halted" => day >= 5 /\ memory = C28_Final
          /\ status = "panic_index" => day = 2 /\ memory = C28_Final /\ ip = 8

C28_WitnessHalted ==
    program = SelfModifying /\ day = 15 /\ status = "halted" /\ memory = C28_Final

C28_WitnessDay02 ==
    program = SelfModifying /\ day = 2 /\ status = "panic_index" /\ memory = C28_Final

\* ------------------------------------------------------------------ C29
\* C29: on the variants with parameter modes (days 05..15), for an
\* instruction whose opcode has fewer than three parameters, the step has
\* the outcome it has when the mode digits of the parameters the opcode
\* does not use are 0: the same status, ip, relative_base, last_output and
\* outputs, and the same memory but for the instruction cell itself.
C29_Unused(op) ==
    CASE op \in {3, 4, 9} -> {2, 3}
      [] op \in {5, 6} -> {3}
      [] op = 99 -> {1, 2, 3}
      [] OTHER -> {}

\* The instruction cell v with the mode digits of the unused parameters 0.
C29_Plain(v) ==
    SpecOpcode(v)
    + (IF 1 \in C29_Unused(SpecOpcode(v)) THEN 0 ELSE 100 * SpecModeDigit(v, 1))
    + (IF 2 \in C29_Unused(SpecOpcode(v)) THEN 0 ELSE 1000 * SpecModeDigit(v, 2))
    + (IF 3 \in C29_Unused(SpecOpcode(v)) THEN 0 ELSE 10000 * SpecModeDigit(v, 3))

C29_Scope(P) ==
    /\ day >= 5
    /\ P.status = "running"
    /\ P.ip >= 0 /\ P.ip < Len(P.memory)
    /\ CellAt(P) >= 0 /\ CellAt(P) < 100000
    /\ SpecOpcode(CellAt(P)) \in DefinedOpcodes(day)
    /\ C29_Unused(SpecOpcode(CellAt(P))) # {}

C29_SameOutcome(P, R) ==
    /\ status = R.status
    /\ ip = R.ip
    /\ relative_base = R.relative_base
    /\ last_output = R.last_output
    /\ outq = R.outq
    /\ inq = R.inq
    /\ Len(memory) = Len(R.memory)
    /\ \A i \in 1..Len(memory) : i # P.ip + 1 => memory[i] = R.memory[i]

C29_UnusedModesIgnored ==
    (Stepped /\ C29_Scope(prev)) =>
        C29_SameOutcome(prev,
            StepOf(day, build, [prev EXCEPT !.memory[prev.ip + 1] = C29_Plain(CellAt(prev))]))

\* What the code does: fetch converts all three mode digits before the
\* opcode is looked at, and an undefined digit of an unused parameter
\* panics (30004 on day 15).
C29_WitnessUnusedMode ==
    /\ Stepped /\ C29_Scope(prev) /\ day = 15
    /\ CellAt(prev) = 30004
    /\ status = "panic_mode"
    /\ StepOf(day, build, [prev EXCEPT !.memory[prev.ip + 1] = 4]).status = "running"

\* ------------------------------------------------------------------ C30
\* C30: on every variant a step at a cell 99 halts the machine without a
\* fault and leaves the memory as it is, also when the 99 is the last cell
\* or fewer than three cells follow it.
C30_Scope(P) ==
    /\ P.status = "running"
    /\ P.ip >= 0 /\ P.ip < Len(P.memory)
    /\ CellAt(P) = 99

C30_HaltAnywhere ==
    (Stepped /\ C30_Scope(prev)) => status = "halted" /\ memory = prev.memory

\* What the code does: from day 05 on fetch reads the missing cells as 0;
\* day 02 indexes the three cells behind the opcode before it looks at it.
C30_HaltWithCellsBehind ==
    (Stepped /\ C30_Scope(prev) /\ (day >= 5 \/ prev.ip + 3 < Len(prev.memory))) =>
        status = "halted" /\ memory = prev.memory

C30_WitnessLastCell ==
    /\ Stepped /\ C30_Scope(prev) /\ day = 2
    /\ prev.ip + 1 = Len(prev.memory)
    /\ status = "panic_index"

C30_WitnessFromDay05 ==
    /\ Stepped /\ C30_Scope(prev) /\ day >= 5
    /\ prev.ip + 1 = Len(prev.memory)
    /\ status = "halted"

\* ------------------------------------------------------------------ C31
\* C31: on the variants with step and run (days 07..15) the loop of run
\* ends exactly at a Halt: a step on a decodable instruction returns false
\* if and only if its opcode is 99, the loop never ends normally at a cell
\* whose opcode is not 99, and after the Halt no instruction is executed:
\* memory, ip and the count of instructions stay as they are.
C31_ReturnsFalseAtHalt ==
    (Stepped /\ day >= 7 /\ InstructionAt(prev, DefinedOpcodes(day))) =>
        (status = "halted" <=> SpecOpcode(CellAt(prev)) = 99)

C31_ReturnsAtHaltOnly ==
    (Stepped /\ day >= 7 /\ status = "halted") =>
        /\ prev.status = "running"
        /\ prev.ip >= 0 /\ prev.ip < Len(prev.memory)
        /\ SpecOpcode(CellAt(prev)) = 99
        /\ memory = prev.memory /\ ip = prev.ip

C31_NothingAfterHalt ==
    (day >= 7 /\ status = "halted") =>
        /\ status' = "halted"
        /\ memory' = memory /\ ip' = ip /\ relative_base' = relative_base
        /\ outq' = outq /\ steps' = steps

C31_RunEndsAtHalt ==
    /\ [](C31_ReturnsFalseAtHalt /\ C31_ReturnsAtHaltOnly)
    /\ [][C31_NothingAfterHalt]_vars

\* A run of three instructions that ends at the Halt of its fourth step.
C31_Witness ==
    /\ Stepped /\ day = 15 /\ status = "halted"
    /\ steps = 4 /\ prev.ip > 0
    /\ CellAt(prev) = 99

\* ------------------------------------------------------------------ C32
\* C32: on the variants wired to channels (days 07, 11, 13, 15) a running
\* machine cannot take its next step exactly when that step is a Read, the
\* input channel is empty and a sender lives; while it waits nothing of
\* the machine changes; a Read that finds a value stores the oldest one
\* and advances ip by 2 (its destination a cell of the memory, so that the
\* store itself cannot fault); a Write whose source is Immediate or a cell
\* of the memory completes with ip advanced by 2, whether the receiver
\* lives or not and whatever is still queued behind it.
ChannelDays == {7, 11, 13, 15}

\* Step is the only action of a running machine and Blocked its only guard
\* on the machine.
C32_WaitsOnlyInRead ==
    (day \in ChannelDays /\ status = "running") =>
        (Blocked(day, Machine) <=> (InstructionAt(Machine, {3}) /\ inq = <<>> /\ in_open))

\* The thread is inside recv(): it does not run its driver, so no reset.
C32_UnchangedWhileWaiting ==
    (day \in ChannelDays /\ status = "running" /\ Blocked(day, Machine) /\ acted' # "reset") =>
        /\ memory' = memory /\ ip' = ip /\ relative_base' = relative_base
        /\ last_output' = last_output /\ status' = status /\ outq' = outq

C32_ReadScope(P) ==
    /\ day \in ChannelDays
    /\ InstructionAt(P, {3})
    /\ P.inq # <<>>
    /\ DestOk(P, 1)
    /\ SpecAddress(P, 1) < Len(P.memory)

C32_ReadCompletes ==
    (Stepped /\ C32_ReadScope(prev)) =>
        /\ status = "running"
        /\ ip = prev.ip + 2
        /\ SpecRead(memory, SpecAddress(prev, 1)) = Head(prev.inq)

C32_WriteScope(P) ==
    /\ day \in ChannelDays
    /\ InstructionAt(P, {4})
    /\ SourceOk(P, 1)
    /\ Digit(P, 1) = 1 \/ SpecAddress(P, 1) < Len(P.memory)

C32_WriteCompletes ==
    (Stepped /\ C32_WriteScope(prev)) =>
        /\ status = "running"
        /\ ip = prev.ip + 2
        /\ memory = prev.memory

C32_WaitsInReadOnly ==
    /\ [](C32_WaitsOnlyInRead /\ C32_ReadCompletes /\ C32_WriteCompletes)
    /\ [][C32_UnchangedWhileWaiting]_vars

\* A Read that had to wait has stored the value that arrived, and a Write
\* has completed after the receiver of its channel was dropped.
C32_WitnessRead ==
    /\ Stepped /\ C32_ReadScope(prev)
    /\ Len(prev.inq) = 1 /\ inq = <<>>
    /\ ip = prev.ip + 2

C32_WitnessWrite ==
    /\ Stepped /\ C32_WriteScope(prev) /\ day = 7
    /\ ~prev.out_open
    /\ ip = prev.ip + 2

\* ------------------------------------------------------------------ C33
\* C33: in the ring of day 07, under every interleaving of the threads,
\* the first value a machine reads is its phase setting and the second
\* value machine 1 reads is the seed 0: a value written by the upstream
\* machine is queued behind them.  The controller stores its first input
\* in cell 26, subtracts 4 from it at ip 2, and stores every later input in
\* cell 27 at ip 6.
C33_BeforeFirstWrite(k) == ring.sent[k] = <<>>

C33_PhaseFirst ==
    \A k \in Amplifiers :
        /\ ring.m[k].ip = 0 =>
              /\ ring.chan[k] # <<>>
              /\ Head(ring.chan[k]) = PhaseSettings[k]
        /\ ring.m[k].ip = 2 => ring.m[k].memory[27] = PhaseSettings[k]
        /\ (C33_BeforeFirstWrite(k) /\ ring.m[k].ip >= 6) =>
              ring.m[k].memory[27] = PhaseSettings[k] - 4

C33_SeedSecond ==
    /\ ring.m[1].ip = 0 => Len(ring.chan[1]) >= 2 /\ ring.chan[1][2] = 0
    /\ (C33_BeforeFirstWrite(1) /\ ring.m[1].ip \in {2, 6}) =>
          ring.chan[1] # <<>> /\ Head(ring.chan[1]) = 0
    /\ (C33_BeforeFirstWrite(1) /\ ring.m[1].ip = 8) => ring.m[1].memory[28] = 0

C33_PhaseThenSeed == C33_PhaseFirst /\ C33_SeedSecond

\* Machine 1 has written its first value before machine 2 has read its
\* phase: the value waits behind the phase.
C33_Witness ==
    /\ ring.m[2].ip = 0
    /\ Len(ring.chan[2]) = 2
    /\ ring.chan[2][1] = PhaseSettings[2]
    /\ ring.sent[1] = <<ring.chan[2][2]>>

\* ------------------------------------------------------------------ C34
\* C34: on the variants with jumps (days 07..15), when a jump has set ip to
\* a negative value or to a value at or beyond the end of the memory, the
\* next step faults: it executes no instruction, it leaves memory and ip
\* as they are, and it does not end the run normally.
C34_OutOfMemory(P) ==
    /\ P.status = "running"
    /\ P.ip.neg \/ ~NatLess(P.ip.mag, NatOfDecimal(<<Len(P.memory)>>))

C34_Jumped == wide.status = "jump" /\ Stepped

C34_FaultsOutOfMemory ==
    (C34_Jumped /\ C34_OutOfMemory(prev)) =>
        /\ IsPanic(status)
        /\ memory = prev.memory
        /\ ip = prev.ip

\* What the code does: the i64 variants fault as claimed; on day 09, whose
\* ip is an i128, `ip as usize` keeps the low 64 bits, and the step executes
\* the instruction at that index.
C34_FaultsWithI64 == day # 9 => C34_FaultsOutOfMemory

C34_WitnessFault ==
    /\ C34_Jumped /\ C34_OutOfMemory(prev) /\ day = 15
    /\ prev.ip = Wide(TRUE, <<1>>)
    /\ status = "panic_unwrap"

C34_WitnessTruncated ==
    /\ C34_Jumped /\ C34_OutOfMemory(prev) /\ day = 9
    /\ AsUsize(prev.ip) = 3
    /\ status = "halted"

\* ------------------------------------------------------------------ C35
\* C35: reset of day 15 makes memory the program, ip 0 and relative_base
\* 0, and leaves last_output, both channels and the values queued in them;
\* the step that follows has the outcome of the first step of a machine
\* newly constructed on the program and wired to the same channels, but
\* for last_output, which a step other than Write leaves as reset left it.
C35_Frame ==
    acted = "reset" =>
        /\ memory = program /\ ip = 0 /\ relative_base = 0
        /\ last_output = prev.last_output
        /\ inq = prev.inq /\ in_open = prev.in_open
        /\ outq = prev.outq /\ out_open = prev.out_open
        /\ status = prev.status

C35_Fresh == [last_output |-> <<>>, memory |-> program, ip |-> 0, relative_base |-> 0,
              status |-> "running", inq |-> inq, in_open |-> in_open, outq |-> outq,
              out_open |-> out_open]

C35_SameStep(N, F) ==
    /\ N.memory = F.memory /\ N.ip = F.ip /\ N.relative_base = F.relative_base
    /\ N.status = F.status
    /\ N.inq = F.inq /\ N.outq = F.outq
    /\ N.last_output = IF F.last_output = <<>> THEN last_output ELSE F.last_output

C35_StepsAsNew ==
    (acted = "reset" /\ ~Blocked(day, Machine)) =>
        C35_SameStep(StepOf(day, build, Machine), StepOf(day, build, C35_Fresh))

C35_ResetRestarts == C35_Frame /\ C35_StepsAsNew

\* A reset of a machine that had moved its relative base and written a
\* value that is still queued.
C35_Witness ==
    /\ acted = "reset"
    /\ prev.relative_base # 0 /\ prev.ip # 0
    /\ last_output # <<>> /\ outq # <<>>
    /\ memory = program /\ ip = 0 /\ relative_base = 0

\* ======================================================================
\* The loops of day 07 (part2): five nested loops over the phases 5..9,
\* each inner loop filtered by the phases the outer loops hold; the body
\* of the innermost loop instantiates one ring (the ring itself is followed
\* in SpecRing), joins its threads and pushes the last thread's output to
\* a heap whose greatest element is returned.
\*
\* `from..to` with from = 5 and to = 10.
RingPhases == {5, 6, 7, 8, 9}

\* The inner loops without their filter.
Unfiltered(taken) == RingPhases

\* `(from..to).filter(|x| ![a, ..].contains(x))`: the phases an inner loop
\* runs over when the outer loops hold `taken`.
Filtered(taken) == RingPhases \ Elements(taken)

\* The next binding of a loop variable in program order once the body has
\* run with a, .., e = path: the next phase of the innermost loop that has
\* one left; <<>> when the outermost loop is done.
RECURSIVE NextLoop(_)
NextLoop(path) ==
    IF path = <<>> THEN <<>>
    ELSE LET outer == SubSeq(path, 1, Len(path) - 1)
             left == {x \in Filtered(outer) : x > path[Len(path)]}
         IN  IF left = {} THEN NextLoop(outer) ELSE Append(outer, Least(left))

\* Entering the loops below a binding, each at its first phase.
RECURSIVE Innermost(_)
Innermost(path) ==
    IF Len(path) = Cardinality(RingPhases) THEN path
    ELSE Innermost(Append(path, Least(Filtered(path))))

\* The a, .., e of the next run of the innermost body; <<>> when the loops
\* are done.
NextOrdering(current) ==
    IF current = <<>> THEN Innermost(<<>>)
    ELSE LET h == NextLoop(current)
         IN  IF h = <<>> THEN <<>> ELSE Innermost(h)

\* What the joins of one ring give: the last thread's last_output is Some
\* or None, or a thread has panicked and `join().unwrap()` panics.
JoinOutcomes == {"some", "none", "panic"}

InitOrderings ==
    /\ orderings = [phase |-> "loop", current |-> <<>>, run |-> <<>>, signals |-> 0]
    /\ chain = NoChain
    /\ search = NoSearch
    /\ ring = NoRing
    /\ wide = NoWide
    /\ driver = NoDriver
    /\ day = 7
    /\ build = "release"
    /\ program = AmplifierController
    /\ memory = <<>>
    /\ ip = 0
    /\ relative_base = 0
    /\ last_output = <<>>
    /\ status = "running"
    /\ inq = <<>>
    /\ in_open = TRUE
    /\ outq = <<>>
    /\ out_open = TRUE
    /\ steps = 0
    /\ prev = new(<<>>, <<>>, TRUE, TRUE)
    /\ acted = "init"
    /\ stores = <<>>

OrderingsUnchanged ==
    UNCHANGED <<day, build, program, memory, ip, relative_base, last_output, status,
                inq, in_open, outq, out_open, steps, prev, stores, wide, ring, search,
                chain, driver>>

\* One run of the innermost body: the channels, the sends of a, .., e and
\* 0, the five threads, the joins and `signals.push(output)`.
Part2Ring ==
    /\ orderings.phase = "loop"
    /\ NextOrdering(orderings.current) # <<>>
    /\ \E p \in {NextOrdering(orderings.current)} : \E joined \in JoinOutcomes :
          orderings' = [orderings EXCEPT
                          !.current = p,
                          !.run = Append(@, p),
                          !.signals = IF joined = "some" THEN @ + 1 ELSE @,
                          !.phase = IF joined = "panic" THEN "panicked" ELSE @]
    /\ acted' = "orderings"
    /\ OrderingsUnchanged

\* `*signals.peek().unwrap()` when the loops are done.
Part2Peek ==
    /\ orderings.phase = "loop"
    /\ NextOrdering(orderings.current) = <<>>
    /\ orderings' = [orderings EXCEPT
                       !.phase = IF orderings.signals = 0 THEN "panicked" ELSE "returned"]
    /\ acted' = "orderings"
    /\ OrderingsUnchanged

NextOrderings == Part2Ring \/ Part2Peek
SpecOrderings == InitOrderings /\ [][NextOrderings]_vars

\* ------------------------------------------------------------------ C36
\* C36: day 07 part2 instantiates a ring only for an ordering of the
\* phases 5,6,7,8,9 (five phases, pairwise distinct), no ordering twice,
\* and when the loops are done every one of the 120 orderings has been run
\* exactly once.
C36_IsOrdering(p) ==
    /\ Len(p) = 5
    /\ \A k \in 1..5 : p[k] \in {5, 6, 7, 8, 9}
    /\ \A k \in 1..5 : \A j \in 1..5 : k # j => p[k] # p[j]

C36_RingsAreOrderings ==
    \A i \in 1..Len(orderings.run) : C36_IsOrdering(orderings.run[i])

\* As many distinct orderings as rings.
C36_NoRingTwice ==
    Cardinality(Elements(orderings.run)) = Len(orderings.run)

C36_LoopsDone ==
    \/ orderings.phase = "returned"
    \/ /\ orderings.phase = "loop"
       /\ orderings.current # <<>>
       /\ NextOrdering(orderings.current) = <<>>

C36_EveryOrderingOnce ==
    /\ C36_RingsAreOrderings
    /\ C36_NoRingTwice
    /\ C36_LoopsDone =>
          /\ Len(orderings.run) = 120
          /\ Cardinality(Elements(orderings.run)) = 120

\* part2 has returned, the first ring ran 5,6,7,8,9 and the last one the
\* ordering SpecRing follows.
C36_Witness ==
    /\ orderings.phase = "returned"
    /\ Len(orderings.run) = 120
    /\ orderings.run[1] = <<5, 6, 7, 8, 9>>
    /\ orderings.run[120] = PhaseSettings

\* ======================================================================
\* The single-threaded drivers of days 11 (part1), 13 (part2) and 15
\* (part1): one machine on two channels the driver holds the other ends
\* of, one input sent before the loop, and `while interpreter.step()` with
\* at most one `rx_output.try_recv()` in its body.
MaxIterations == 12

\* A program that reads one input and writes a paint value and a turn
\* value, twice, and one that does so for ever.
Painter(p1, t1, p2, t2) == <<3, 20, 104, p1, 104, t1, 3, 20, 104, p2, 104, t2, 99>>
Painters == {Painter(p1, t1, p2, t2) : p1 \in {0, 1}, t1 \in {0, 1}, p2 \in {0, 1}, t2 \in {0, 1}}
PaintForever == <<3, 10, 104, 1, 104, 0, 1105, 1, 0>>
PaintPrograms == Painters \cup {PaintForever}

\* Answers 0, 1 or 2 to every input, for ever.
Answers(v) == <<3, 10, 104, v, 1105, 1, 0>>

\* Programs whose outputs the drivers panic on, one that writes without
\* reading, one that reads twice and one with an unknown opcode.
DriverPrograms ==
    PaintPrograms \cup {Answers(v) : v \in {0, 1, 2}}
        \cup {<<3, 20, 104, 1, 104, 7, 99>>, <<104, 0, 104, 0, 104, 9, 99>>,
              <<104, 3, 104, 2, 104, 4, 104, 1, 99>>, <<3, 20, 3, 20, 99>>,
              <<104, 0, 77>>}

\* Programs for day 13, whose part2 overwrites cell 0 with 2: a Multiply
\* first, then triples of outputs (a ball, a score, a paddle, an unknown
\* tile, a tile off the map), a Read, an unknown opcode.
GamePrograms ==
    {<<1, 0, 0, 0, 104, 3, 104, 2, 104, 4, 3, 30, 104, -1, 104, 0, 104, 7, 99>>,
     <<1, 0, 0, 0, 104, 5, 104, 5, 104, 3, 104, 5, 104, 6, 104, 4, 3, 30, 99>>,
     <<1, 0, 0, 0, 104, 0, 104, 0, 104, 9, 99>>,
     <<1, 0, 0, 0, 104, -1, 104, 1, 104, 0, 99>>,
     <<1, 0, 0, 0, 104, 1, 104, 0, 104, 4, 104, 0, 3, 30, 3, 30, 99>>,
     <<1, 0, 0, 0, 3, 14, 104, 1, 104, 0, 1105, 1, 4>>,
     <<1, 0, 0, 0, 104, 1, 77>>}

\* `rx_output.try_recv()`: Ok with the oldest value, which leaves the
\* channel, or Err when the channel is empty.
try_recv_kept(q) ==
    IF q = <<>> THEN [ok |-> FALSE, value |-> 0, rest |-> q]
    ELSE [ok |-> TRUE, value |-> Head(q), rest |-> q]

try_recv(q) ==
    IF q = <<>> THEN [ok |-> FALSE, value |-> 0, rest |-> q]
    ELSE [ok |-> TRUE, value |-> Head(q), rest |-> Tail(q)]

\* An index of type usize into a Vec of n elements; a negative i64 cast to
\* usize is beyond every Vec.
InVec(i, n) == i >= 0 /\ i < n

\* What the body of a loop gives: the driver's locals, the inputs it has
\* sent, whether it has called interpreter.reset, and how it ends: at the
\* end of the body, by a panic or by a return.
LoopBody(local, send, reset, ends) ==
    [local |-> local, send |-> send, reset |-> reset, ends |-> ends]

\* ---- day 11
turn_left(direction) ==
    CASE direction = "Up" -> "Left"
      [] direction = "Right" -> "Up"
      [] direction = "Down" -> "Right"
      [] direction = "Left" -> "Down"

turn_right(direction) ==
    CASE direction = "Up" -> "Right"
      [] direction = "Right" -> "Down"
      [] direction = "Down" -> "Left"
      [] direction = "Left" -> "Up"

movement(direction) ==
    CASE direction = "Up" -> <<0, 1>>
      [] direction = "Right" -> <<1, 0>>
      [] direction = "Down" -> <<0, -1>>
      [] direction = "Left" -> <<-1, 0>>

\* The flag starting the other way round.
TurnedNotAtStart == FALSE

\* `let mut turned = true;`
TurnedAtStart == TRUE

\* The locals of day 11's part1; map is the set of the <<cy, cx>> that hold
\* true, roles what each output was taken for.
Locals11 ==
    [map |-> {}, cx |-> 50, cy |-> 50, direction |-> "Up", painted |-> {},
     turned |-> TurnedAtStart, roles |-> <<>>]

\* The body of `if let Ok(out) = rx_output.try_recv()` of day 11.
Body11(L, out) ==
    IF ~L.turned
    THEN IF out \notin {0, 1}
         THEN LoopBody([L EXCEPT !.roles = Append(@, "turn")], <<>>, FALSE, "panicked")
         ELSE LET dir == IF out = 0 THEN turn_left(L.direction) ELSE turn_right(L.direction)
                  y == movement(dir)[1]
                  x == movement(dir)[2]
                  M == [L EXCEPT !.direction = dir, !.cx = L.cx + x, !.cy = L.cy + y,
                                 !.roles = Append(@, "turn")]
              IN  IF ~(InVec(M.cy, 100) /\ InVec(M.cx, 100))
                  THEN LoopBody(M, <<>>, FALSE, "panicked")
                  ELSE LoopBody([M EXCEPT !.turned = TRUE],
                            <<IF <<M.cy, M.cx>> \in M.map THEN 1 ELSE 0>>, FALSE, "loop")
    ELSE LoopBody([L EXCEPT !.painted = @ \cup {<<L.cx, L.cy>>},
                        !.map = IF out = 1 THEN @ \cup {<<L.cy, L.cx>>}
                                ELSE @ \ {<<L.cy, L.cx>>},
                        !.turned = FALSE,
                        !.roles = Append(@, "paint")],
              <<>>, FALSE, "loop")

\* ---- day 13
\* The locals of day 13's part2 but the map, which is only drawn; x, y
\* and ball are <<>> for None.
Locals13 == [paddle |-> 0, ball |-> <<>>, score |-> 0, x |-> <<>>, y |-> <<>>]

\* `if let Some(ball_) = ball`: one input by the side of the paddle the
\* ball is on.
Paddle13(L) ==
    IF L.ball = <<>> THEN LoopBody(L, <<>>, FALSE, "loop")
    ELSE LoopBody([L EXCEPT !.ball = <<>>],
              <<IF L.paddle > L.ball[1] THEN -1 ELSE IF L.paddle = L.ball[1] THEN 0 ELSE 1>>,
              FALSE, "loop")

\* The body of `if let Ok(out) = rx_output.try_recv()` of day 13.
Body13(L, out) ==
    IF L.x = <<>> THEN Paddle13([L EXCEPT !.x = <<out>>])
    ELSE IF L.y = <<>> THEN Paddle13([L EXCEPT !.y = <<out>>])
    ELSE IF L.x = <<-1>> /\ L.y = <<0>>
         THEN Paddle13([L EXCEPT !.score = out, !.x = <<>>, !.y = <<>>])
    ELSE IF out \notin 0..4 \/ ~(InVec(L.y[1], 26) /\ InVec(L.x[1], 50))
         THEN LoopBody(L, <<>>, FALSE, "panicked")
         ELSE Paddle13([L EXCEPT !.paddle = IF out = 3 THEN L.x[1] ELSE @,
                                 !.ball = IF out = 4 THEN <<L.x[1]>> ELSE @,
                                 !.x = <<>>, !.y = <<>>])

\* ---- day 15
\* Movement::North, South, West, East as the i64 they are sent as.
North == 1
South == 2
West == 3
East == 4

\* The locals of day 15's part1 but the map, which is only returned, after
\* the first pop of stack and queue; oxygen and distance are <<>> for None.
Locals15 ==
    [stack |-> <<<< <<South>>, <<0, 1>> >>, << <<West>>, <<-1, 0>> >>,
                 << <<East>>, <<1, 0>> >>>>,
     seen |-> {}, queue |-> <<>>, path |-> <<North>>, x |-> 0, y |-> -1,
     oxygen |-> <<>>, distance |-> <<>>]

\* `while queue.is_empty()` with `stack.pop_front()`: the entries popped
\* until one is at a position `seen.insert` takes.
RECURSIVE PopUntilNew(_, _)
PopUntilNew(stack, seen) ==
    IF stack = <<>> THEN [found |-> FALSE, stack |-> stack, seen |-> seen, entry |-> <<>>]
    ELSE IF Head(stack)[2] \in seen THEN PopUntilNew(Tail(stack), seen)
    ELSE [found |-> TRUE, stack |-> Tail(stack), seen |-> seen \cup {Head(stack)[2]},
          entry |-> Head(stack)]

\* The body of `if let Ok(out) = rx_output.try_recv()` of day 15.
Body15(L, out) ==
    IF out \notin {0, 1, 2} THEN LoopBody(L, <<>>, FALSE, "panicked")
    ELSE IF L.queue # <<>>
    THEN LoopBody([L EXCEPT !.queue = Tail(@)], <<Head(L.queue)>>, FALSE, "loop")
    ELSE IF out = 0 /\ ~(InVec(L.y + 25, 50) /\ InVec(L.x + 25, 50))
    THEN LoopBody(L, <<>>, FALSE, "panicked")
    ELSE LET pushed == IF out = 1
                       THEN L.stack \o << <<Append(L.path, North), <<L.x, L.y - 1>> >>,
                                          <<Append(L.path, South), <<L.x, L.y + 1>> >>,
                                          <<Append(L.path, West), <<L.x - 1, L.y>> >>,
                                          <<Append(L.path, East), <<L.x + 1, L.y>> >> >>
                       ELSE L.stack
             M == IF out = 2 /\ L.distance = <<>>
                  THEN [L EXCEPT !.oxygen = <<L.x, L.y>>, !.distance = <<Len(L.path)>>]
                  ELSE L
             t == PopUntilNew(pushed, L.seen)
         IN  IF ~t.found
             THEN LoopBody([M EXCEPT !.stack = <<>>], <<>>, FALSE,
                       IF M.distance = <<>> THEN "panicked" ELSE "returned")
             ELSE LoopBody([M EXCEPT !.stack = t.stack, !.seen = t.seen,
                                 !.path = t.entry[1], !.x = t.entry[2][1],
                                 !.y = t.entry[2][2], !.queue = Tail(t.entry[1])],
                       <<Head(t.entry[1])>>, TRUE, "loop")

\* ---- the loop
BodyOf(d, L, out) ==
    IF d = 11 THEN Body11(L, out) ELSE IF d = 13 THEN Body13(L, out) ELSE Body15(L, out)

\* The memory the machine is made on: day 13's part2 sets cell 0 to 2.
DriverMemory(d, p) == IF d = 13 THEN [p EXCEPT ![1] = 2] ELSE p

InitDriver ==
    \E d \in {11, 13, 15} : \E p \in (IF d = 13 THEN GamePrograms ELSE DriverPrograms) :
       \E M \in {new(DriverMemory(d, p), <<1>>, TRUE, TRUE)} :
          /\ day = d
          /\ build = "release"
          /\ program = DriverMemory(d, p)
          /\ memory = M.memory
          /\ ip = M.ip
          /\ relative_base = M.relative_base
          /\ last_output = M.last_output
          /\ status = M.status
          /\ inq = M.inq
          /\ in_open = M.in_open
          /\ outq = M.outq
          /\ out_open = M.out_open
          /\ driver = [phase |-> "loop", iterations |-> 0, written |-> <<>>, taken |-> <<>>,
                       sent |-> <<1>>,
                       local |-> IF d = 11 THEN Locals11
                                 ELSE IF d = 13 THEN Locals13 ELSE Locals15]
          /\ steps = 0
          /\ prev = M
          /\ acted = "init"
          /\ stores = <<>>
          /\ wide = NoWide
          /\ ring = NoRing
          /\ search = NoSearch
          /\ chain = NoChain
          /\ orderings = NoOrderings

\* One `interpreter.step()` of the loop head and, when it returns true, the
\* body of the loop.  A step that returns false ends the loop, after which
\* days 11 and 13 return and day 15 panics.
StepLoop ==
    /\ driver.phase = "loop"
    /\ status = "running"
    /\ ~Blocked(day, Machine)
    /\ driver.iterations < MaxIterations
    /\ \E N \in {step(day, build, Machine)} :
          \E D \in {[driver EXCEPT
                       !.iterations = @ + 1,
                       !.written = @ \o SubSeq(N.outq, Len(outq) + 1, Len(N.outq))]} :
             IF N.status # "running"
             THEN /\ Becomes(N)
                  /\ driver' = [D EXCEPT !.phase = IF N.status = "halted" /\ day # 15
                                                    THEN "returned" ELSE "panicked"]
             ELSE \E R \in {try_recv(N.outq)} :
                     IF ~R.ok
                     THEN Becomes(N) /\ driver' = D
                     ELSE \E B \in {BodyOf(day, driver.local, R.value)} :
                             /\ Becomes([N EXCEPT
                                           !.outq = R.rest,
                                           !.inq = @ \o B.send,
                                           !.memory = IF B.reset THEN program ELSE @,
                                           !.ip = IF B.reset THEN 0 ELSE @,
                                           !.relative_base = IF B.reset THEN 0 ELSE @])
                             /\ driver' = [D EXCEPT !.phase = B.ends,
                                                    !.taken = Append(@, R.value),
                                                    !.sent = @ \o B.send,
                                                    !.local = B.local]
    /\ prev' = Machine
    /\ acted' = "driver"
    /\ UNCHANGED <<day, build, program, steps, stores, wide, ring, search, chain, orderings>>

Day11Part1 == day = 11 /\ StepLoop
Day13Part2 == day = 13 /\ StepLoop
Day15Part1 == day = 15 /\ StepLoop

NextDriver == Day11Part1 \/ Day13Part2 \/ Day15Part1
SpecDriver == InitDriver /\ [][NextDriver]_vars

\* The driver's one thread runs its loop whenever it can.
FairSpecDriver == SpecDriver /\ WF_vars(NextDriver)

\* ------------------------------------------------------------------ C37
\* C37: in the drivers of days 11, 13 and 15 the machine's output channel
\* is empty at the end of every iteration of the step loop and when the
\* machine has halted, and the driver has taken every value the machine
\* has written, once each and in the order written.
C37_ChannelEmpty == driver.phase # "unused" => outq = <<>>

C37_TakenAsWritten == driver.phase # "unused" => driver.taken = driver.written

C37_OutputsTakenAtOnce == C37_ChannelEmpty /\ C37_TakenAsWritten

\* The machine has halted after the driver has taken several outputs, the
\* last of them written by the step before the halt.
C37_Witness ==
    /\ driver.phase = "returned"
    /\ status = "halted"
    /\ Len(driver.taken) >= 4
    /\ prev.last_output = <<driver.taken[Len(driver.taken)]>>
    /\ driver.taken[1] # driver.taken[2]

\* The same on day 15 after a reset: the driver has returned.
C37_WitnessExplored ==
    /\ day = 15
    /\ driver.phase = "returned"
    /\ Len(driver.taken) >= 4
    /\ driver.local.oxygen = <<0, -1>>

\* ------------------------------------------------------------------ C38
\* C38: in day 11's driver, on a program that reads one input and then
\* writes a paint value and a turn value, again and again, the outputs are
\* taken as paint, turn, paint, turn, ..; one input is sent before the loop
\* and one after each turn; the input channel holds exactly one value
\* whenever the machine is at a Read; and the loop never waits in a Read:
\* it goes on until the machine halts (or as far as it is followed).
C38_Scope == day = 11 /\ driver.phase # "unused" /\ program \in PaintPrograms

C38_Alternates ==
    \A k \in 1..Len(driver.local.roles) :
        driver.local.roles[k] = IF k % 2 = 1 THEN "paint" ELSE "turn"

C38_OneInputPerTurn ==
    /\ Len(driver.local.roles) = Len(driver.taken)
    /\ Len(driver.sent) = 1 + (Len(driver.taken) \div 2)

C38_AtRead == driver.phase = "loop" /\ status = "running" /\ InstructionAt(Machine, {3})

C38_Waiting == driver.phase = "loop" /\ status = "running" /\ Blocked(day, Machine)

C38_State ==
    C38_Scope =>
        /\ C38_Alternates
        /\ C38_OneInputPerTurn
        /\ C38_AtRead => Len(inq) = 1
        /\ ~C38_Waiting
        /\ driver.phase # "panicked"

C38_LoopEnds == driver.phase = "returned" \/ driver.iterations = MaxIterations

C38_PaintThenTurn == []C38_State /\ [](C38_Scope => <>C38_LoopEnds)

\* The machine is at its second Read with the one input the driver has
\* sent after the first turn, the robot one cell away from the cell it has
\* painted (the first component of movement() is added to cy).
C38_Witness ==
    /\ C38_Scope
    /\ C38_AtRead
    /\ driver.local.roles = <<"paint", "turn">>
    /\ driver.sent = <<1, 0>>
    /\ inq = <<0>>
    /\ driver.local.cx = 50
    /\ driver.local.cy = 49
    /\ driver.local.map = {<<50, 50>>}

====
